---- MODULE Spec2Model ----
(***************************************************************************)
(* A model of the event-driven core of the multi-tenant workflow platform: *)
(* organization-service and billing-service publish fact events to a       *)
(* partitioned log, workflow-service consumes them into its membership and *)
(* entitlement caches and guards its request path with them; audit-service *)
(* and notification-service deduplicate deliveries by eventId.             *)
(*                                                                         *)
(* Several specifications share the variables, each one exercising one     *)
(* part of the system:                                                     *)
(*   Spec        producers, the bus and the workflow consumer              *)
(*   SpecCache   events delivered straight to the workflow consumer        *)
(*   SpecAuth    the workflow auth middleware over the membership cache    *)
(*   SpecLimits  createProject / createTask over the entitlement cache     *)
(*   SpecAudit   AuditService.recordEvent with two concurrent deliveries   *)
(*   SpecNotif   NotificationService.createNotification                    *)
(*   SpecLoop    the consume loops of the five consumers, with fairness    *)
(*   SpecSaga    organization deletion and its consumer (SpecSagaFair)     *)
(*   SpecRequests  the request path of workflow-service                    *)
(*   SpecPublish   the state-changing operations with failing calls        *)
(*   SpecRace      concurrent createProject requests (check, then insert)   *)
(*   SpecRejected  payloads the workflow handlers refuse, over the bus      *)
(*   SpecCleanup   members added, organizations deleted, fair consumption   *)
(*   SpecRoutes    the workflow routes behind the auth middleware           *)
(*   SpecSubscribe concurrent createSubscription requests                   *)
(*   SpecBilling   subscriptions created, changed and cancelled             *)
(*   SpecInvite    invitations sent, accepted and rejected                  *)
(*   SpecTasks     the tasks table under create and update                  *)
(*   SpecUpdate    concurrent updateTask requests                           *)
(*   SpecMetrics   the analytics counters over TaskStatusChanged events     *)
(*   SpecMembers   addMember / removeMember with failing calls              *)
(***************************************************************************)
EXTENDS Integers, Sequences, FiniteSets, TLC

\* ------------------------------------------------------------------ bounds
MaxEvents == 3      \* events the producers publish in one behaviour
MaxClock == 1       \* ticks of the store's CURRENT_TIMESTAMP
MaxProjects == 2    \* project rows created in one behaviour
MaxTasks == 2       \* task rows created in one behaviour
MaxRows == 3        \* rows inserted by audit / notification in one behaviour
MaxInbox == 2       \* messages put on the consumers' partitions
MaxSubscriptions == 1   \* subscription rows created in one behaviour
MaxInflight == 2    \* updateTask requests between their read and their write

\* ------------------------------------------------------------ value domains
Orgs == {"T1", "T2"}
Users == {"U1"}
Roles == {"admin", "member"}
Nil == "nil"

\* Limits a plan can carry; 0 is what billing-service sends for a plan
\* limit that is NULL and for a cancelled subscription.
PlanLimits == {[maxProjects |-> 0, maxTasks |-> 0, maxMembers |-> 0],
               [maxProjects |-> 1, maxTasks |-> 2, maxMembers |-> 1]}

\* The documented fail-open defaults for an entitlement cache miss.
DefaultMaxProjects == 10
DefaultMaxTasks == 100

WorkflowTopics == {"organization.member.added", "organization.member.removed",
                   "organization.role.changed", "billing.entitlements.updated",
                   "organization.deleted"}

Topics == WorkflowTopics \cup
          {"workflow.project.created", "workflow.task.created",
           "workflow.project.archived", "workflow.task.updated",
           "workflow.task.assigned", "workflow.task.status-changed",
           "billing.subscription.activated", "billing.subscription.changed",
           "billing.subscription.cancelled", "organization.invitation.sent"}

EventIds == 1 .. MaxEvents

AuditWorkers == {"w1", "w2"}

Consumers == {"workflow", "audit", "analytics", "notification", "billing"}

VARIABLES
  organizations,           \* organization-service table organizations
  memberships,             \* organization-service: live rows of memberships
  subscriptions,           \* billing-service table subscriptions
  billing_entitlements,    \* billing-service table entitlements
  log,                     \* the bus: per topic, the messages in publish order
  position,                \* workflow consumer group: next offset per topic
  committed,               \* workflow consumer group: committed offset per topic
  nextEventId,             \* createEvent's fresh eventId
  membership_cache,        \* workflow-service table membership_cache
  entitlements_cache,      \* workflow-service table entitlements_cache
  projects,                \* workflow-service table projects
  tasks,                   \* workflow-service table tasks
  now,                     \* the store's clock
  applied,                 \* history: eventIds whose handler carried out its writes
  lastDelivered,           \* history: the message applied last, and whether
                           \*   the delivery before it applied the same one
  response,                \* the outcome of the last request
  audit_logs,              \* audit-service table audit_logs
  auditWorker,             \* audit-service: where each delivery stands
  notifications,           \* notification-service table notifications
  notification_deliveries, \* notification-service table notification_deliveries
  notifyResult,            \* outcome of the last createNotification
  inbox,                   \* SpecLoop: each consumer's partition
  offset,                  \* SpecLoop: each consumer's next offset
  task_metrics,            \* analytics-service table task_metrics
  inflight,                \* requests between their check and their insert
  invitations              \* organization-service: invitations table

billingVars == <<subscriptions, billing_entitlements>>
orgVars == <<organizations, memberships, billingVars>>
busVars == <<log, position, committed, nextEventId>>
storeVars == <<membership_cache, entitlements_cache, projects, tasks>>
historyVars == <<applied, lastDelivered, response>>
auditVars == <<audit_logs, auditWorker>>
notifVars == <<notifications, notification_deliveries, notifyResult>>
loopVars == <<inbox, offset, task_metrics>>
raceVars == <<inflight>>

vars == <<orgVars, busVars, storeVars, now, historyVars, auditVars, notifVars,
          loopVars, raceVars, invitations>>

\* ------------------------------------------------- workflow-service: caches
\* A plain INSERT, without the ON CONFLICT clause.
insertMembership(cache, organizationId, userId, role, at) ==
  cache \cup {[organization_id |-> organizationId, user_id |-> userId,
               role |-> role, cached_at |-> at]}

\* INSERT ... ON CONFLICT (organization_id, user_id) DO UPDATE SET role, cached_at
upsertMembership(cache, organizationId, userId, role, at) ==
  {r \in cache : ~(r.organization_id = organizationId /\ r.user_id = userId)}
    \cup {[organization_id |-> organizationId, user_id |-> userId,
           role |-> role, cached_at |-> at]}

\* SELECT * FROM membership_cache WHERE organization_id = $1 AND user_id = $2
membershipRows(cache, organizationId, userId) ==
  {r \in cache : r.organization_id = organizationId /\ r.user_id = userId}

\* null when no row matches, otherwise rows[0]
getMembership(cache, organizationId, userId) ==
  IF membershipRows(cache, organizationId, userId) = {}
    THEN [found |-> FALSE, role |-> Nil]
    ELSE [found |-> TRUE,
          role |-> (CHOOSE r \in membershipRows(cache, organizationId, userId) :
                      TRUE).role]

\* A DELETE whose WHERE names the user only.
deleteMembershipOfUser(cache, organizationId, userId) ==
  {r \in cache : r.user_id # userId}

\* DELETE FROM membership_cache WHERE organization_id = $1 AND user_id = $2
deleteMembership(cache, organizationId, userId) ==
  {r \in cache : ~(r.organization_id = organizationId /\ r.user_id = userId)}

\* INSERT ... ON CONFLICT (organization_id) DO UPDATE SET max_* , cached_at
upsertEntitlements(cache, organizationId, limits, at) ==
  {r \in cache : r.organization_id # organizationId}
    \cup {[organization_id |-> organizationId,
           max_projects |-> limits.maxProjects, max_tasks |-> limits.maxTasks,
           max_members |-> limits.maxMembers, cached_at |-> at]}

entitlementRows(cache, organizationId) ==
  {r \in cache : r.organization_id = organizationId}

\* null when no row matches, otherwise rows[0]
getEntitlements(cache, organizationId) ==
  IF entitlementRows(cache, organizationId) = {}
    THEN [found |-> FALSE, maxProjects |-> 0, maxTasks |-> 0]
    ELSE LET row == CHOOSE r \in entitlementRows(cache, organizationId) : TRUE
         IN [found |-> TRUE, maxProjects |-> row.max_projects,
             maxTasks |-> row.max_tasks]

\* A delete that removes nothing.
keepEntitlements(cache, organizationId) ==
  cache

\* DELETE FROM entitlements_cache WHERE organization_id = $1
deleteEntitlements(cache, organizationId) ==
  {r \in cache : r.organization_id # organizationId}

\* ----------------------------------------------- workflow-service: projects
\* SELECT * FROM projects WHERE organization_id = $1 AND status != 'deleted'
findByOrganization(rows, organizationId) ==
  {p \in rows : p.organization_id = organizationId /\ p.status # "deleted"}

\* SELECT COUNT(*) FROM projects WHERE organization_id = $1 AND status = 'active'
countProjectsByOrganization(rows, organizationId) ==
  Cardinality({p \in rows : p.organization_id = organizationId
                            /\ p.status = "active"})

\* SELECT COUNT(*) FROM tasks WHERE organization_id = $1 AND status != 'cancelled'
countTasksByOrganization(rows, organizationId) ==
  Cardinality({t \in rows : t.organization_id = organizationId
                            /\ t.status # "cancelled"})

\* UPDATE projects SET status = 'archived' WHERE id = $1
archive(rows, id) ==
  {IF p.id = id THEN [p EXCEPT !.status = "archived"] ELSE p : p \in rows}

\* The first n projects of an organization in ORDER BY created_at DESC
\* (ids are handed out in creation order).
newestFirst(rows, n) ==
  {p \in rows : Cardinality({q \in rows : q.id > p.id}) < n}

\* ------------------------------------------------------------ event schemas
\* Every schema extends BaseEventSchema and pins eventType and eventVersion
\* with z.literal; the data fields are required.
MemberAddedEventSchema(event) ==
  /\ event.eventType = "MemberAdded" /\ event.eventVersion = "v1"
  /\ event.organizationId # Nil /\ event.userId # Nil /\ event.role # Nil

MemberRemovedEventSchema(event) ==
  /\ event.eventType = "MemberRemoved" /\ event.eventVersion = "v1"
  /\ event.organizationId # Nil /\ event.userId # Nil

RoleChangedEventSchema(event) ==
  /\ event.eventType = "RoleChanged" /\ event.eventVersion = "v1"
  /\ event.organizationId # Nil /\ event.userId # Nil /\ event.role # Nil

EntitlementsUpdatedEventSchema(event) ==
  /\ event.eventType = "EntitlementsUpdated" /\ event.eventVersion = "v1"
  /\ event.organizationId # Nil /\ event.limits \in PlanLimits

OrganizationDeletedEventSchema(event) ==
  /\ event.eventType = "OrganizationDeleted" /\ event.eventVersion = "v1"
  /\ event.organizationId # Nil

\* createEvent: a fresh eventId, the given type and version, and the data.
\* role carries data.role (MemberAdded) or data.newRole (RoleChanged).
createEvent(id, eventType, organizationId, userId, role, limits) ==
  [json |-> TRUE, eventId |-> id, eventType |-> eventType, eventVersion |-> "v1",
   organizationId |-> organizationId, userId |-> userId, role |-> role,
   limits |-> limits]

NoLimits == [maxProjects |-> 0, maxTasks |-> 0, maxMembers |-> 0]

\* ------------------------------------------- workflow-service: EventConsumer
\* A handler works on the service's store db = [membership_cache,
\* entitlements_cache, projects]; okCalls is the number of store calls that
\* succeed before the store becomes unavailable. Each handler wraps its body
\* in try/catch and only logs, so it never throws: outcome says what happened
\* ("applied", "invalid": schema parse threw, "failed": a store call threw).
handleMemberAdded(db, event, okCalls, at) ==
  IF ~MemberAddedEventSchema(event) THEN [db |-> db, outcome |-> "invalid"]
  ELSE IF okCalls < 1 THEN [db |-> db, outcome |-> "failed"]
  ELSE [db |-> [db EXCEPT !.membership_cache =
                  upsertMembership(@, event.organizationId, event.userId,
                                   event.role, at)],
        outcome |-> "applied"]

\* handleMemberRemoved without the schema validation in front of the delete.
handleMemberRemovedUnvalidated(db, event, okCalls, at) ==
  IF okCalls < 1 THEN [db |-> db, outcome |-> "failed"]
  ELSE [db |-> [db EXCEPT !.membership_cache =
                  deleteMembership(@, event.organizationId, event.userId)],
        outcome |-> "applied"]

handleMemberRemoved(db, event, okCalls, at) ==
  IF ~MemberRemovedEventSchema(event) THEN [db |-> db, outcome |-> "invalid"]
  ELSE IF okCalls < 1 THEN [db |-> db, outcome |-> "failed"]
  ELSE [db |-> [db EXCEPT !.membership_cache =
                  deleteMembership(@, event.organizationId, event.userId)],
        outcome |-> "applied"]

handleRoleChanged(db, event, okCalls, at) ==
  IF ~RoleChangedEventSchema(event) THEN [db |-> db, outcome |-> "invalid"]
  ELSE IF okCalls < 1 THEN [db |-> db, outcome |-> "failed"]
  ELSE [db |-> [db EXCEPT !.membership_cache =
                  upsertMembership(@, event.organizationId, event.userId,
                                   event.role, at)],
        outcome |-> "applied"]

handleEntitlementsUpdated(db, event, okCalls, at) ==
  IF ~EntitlementsUpdatedEventSchema(event) THEN [db |-> db, outcome |-> "invalid"]
  ELSE IF okCalls < 1 THEN [db |-> db, outcome |-> "failed"]
  ELSE [db |-> [db EXCEPT !.entitlements_cache =
                  upsertEntitlements(@, event.organizationId, event.limits, at)],
        outcome |-> "applied"]

\* findByOrganization, then archive(project.id) for each project found, then
\* deleteEntitlements: 1 + n + 1 store calls, each of which can throw and end
\* the handler in its catch with the earlier writes already committed.
handleOrganizationDeleted(db, event, okCalls, at) ==
  IF ~OrganizationDeletedEventSchema(event) THEN [db |-> db, outcome |-> "invalid"]
  ELSE IF okCalls < 1 THEN [db |-> db, outcome |-> "failed"]
  ELSE LET found == findByOrganization(db.projects, event.organizationId)
           n == Cardinality(found)
           done == newestFirst(found, okCalls - 1)
           archived == {IF p \in done THEN [p EXCEPT !.status = "archived"]
                        ELSE p : p \in db.projects}
       IN IF okCalls < n + 2
            THEN [db |-> [db EXCEPT !.projects = archived], outcome |-> "failed"]
            ELSE [db |-> [db EXCEPT !.projects = archived,
                                    !.entitlements_cache =
                                      deleteEntitlements(@, event.organizationId)],
                  outcome |-> "applied"]

\* A callback whose catch block rethrows what JSON.parse threw.
eachMessageRethrow(db, topic, message, okCalls, at) ==
  IF ~message.json THEN [db |-> db, outcome |-> "unparsable", settled |-> "rejected"]
  ELSE LET r == CASE topic = "organization.member.added" ->
                       handleMemberAdded(db, message, okCalls, at)
                  [] topic = "organization.member.removed" ->
                       handleMemberRemoved(db, message, okCalls, at)
                  [] topic = "organization.role.changed" ->
                       handleRoleChanged(db, message, okCalls, at)
                  [] topic = "billing.entitlements.updated" ->
                       handleEntitlementsUpdated(db, message, okCalls, at)
                  [] topic = "organization.deleted" ->
                       handleOrganizationDeleted(db, message, okCalls, at)
                  [] OTHER -> [db |-> db, outcome |-> "ignored"]
       IN [db |-> r.db, outcome |-> r.outcome, settled |-> "resolved"]

\* eachMessage: JSON.parse, then the switch on the topic; the surrounding
\* try/catch logs whatever is thrown, so the callback always resolves.
eachMessage(db, topic, message, okCalls, at) ==
  IF ~message.json THEN [db |-> db, outcome |-> "unparsable", settled |-> "resolved"]
  ELSE LET r == CASE topic = "organization.member.added" ->
                       handleMemberAdded(db, message, okCalls, at)
                  [] topic = "organization.member.removed" ->
                       handleMemberRemoved(db, message, okCalls, at)
                  [] topic = "organization.role.changed" ->
                       handleRoleChanged(db, message, okCalls, at)
                  [] topic = "billing.entitlements.updated" ->
                       handleEntitlementsUpdated(db, message, okCalls, at)
                  [] topic = "organization.deleted" ->
                       handleOrganizationDeleted(db, message, okCalls, at)
                  [] OTHER -> [db |-> db, outcome |-> "ignored"]
       IN [db |-> r.db, outcome |-> r.outcome, settled |-> "resolved"]


Store == [membership_cache |-> membership_cache,
          entitlements_cache |-> entitlements_cache, projects |-> projects]

StoreCalls == 0 .. (MaxProjects + 2)

\* The consumer takes the next message of a topic partition. The offset moves
\* on when the callback resolves; a rejected callback leaves it in place and
\* the message is fetched again.
EachMessage(topic, okCalls) ==
  /\ position[topic] < Len(log[topic])
  /\ LET message == log[topic][position[topic] + 1]
         res == eachMessage(Store, topic, message, okCalls, now)
     IN /\ membership_cache' = res.db.membership_cache
        /\ entitlements_cache' = res.db.entitlements_cache
        /\ projects' = res.db.projects
        /\ applied' = IF res.outcome = "applied"
                        THEN applied \cup {message.eventId} ELSE applied
        /\ position' = IF res.settled = "resolved"
                         THEN [position EXCEPT ![topic] = @ + 1] ELSE position
  /\ UNCHANGED <<orgVars, log, committed, nextEventId, tasks, now, lastDelivered,
                 response, auditVars, notifVars, loopVars, inflight, invitations>>

\* Offsets are committed after processing (autoCommit), all partitions at once.
Commit ==
  /\ committed # position
  /\ committed' = position
  /\ UNCHANGED <<orgVars, log, position, nextEventId, storeVars, now, historyVars,
                 auditVars, notifVars, loopVars, inflight, invitations>>

\* A consumer restart or group rebalance resumes from the committed offsets:
\* everything consumed since the last commit is delivered again
\* (at-least-once delivery).
Restart ==
  /\ position # committed
  /\ position' = committed
  /\ UNCHANGED <<orgVars, log, committed, nextEventId, storeVars, now, historyVars,
                 auditVars, notifVars, loopVars, inflight, invitations>>

\* CURRENT_TIMESTAMP advances.
Tick ==
  /\ now < MaxClock
  /\ now' = now + 1
  /\ UNCHANGED <<orgVars, busVars, storeVars, historyVars, auditVars, notifVars,
                 loopVars, inflight, invitations>>

\* ------------------------------------------------------------ EventPublisher
\* producer.send({topic, messages: [{key: event.organizationId, value}]}):
\* the message is appended to the topic's partition for that key. One
\* partition per topic is modelled, the strongest ordering the bus can give.
publish(logs, topic, event) ==
  [logs EXCEPT ![topic] = Append(@, event)]

\* ------------------------------------------------------ organization-service
\* SELECT * FROM memberships WHERE organization_id, user_id, deleted_at IS NULL
findByOrganizationAndUser(rows, organizationId, userId) ==
  {m \in rows : m.organization_id = organizationId /\ m.user_id = userId}

\* addMember with the publish call ahead of the insert.
addMemberPublishFirst(organizationId, userId, role, okCalls) ==
  /\ nextEventId <= MaxEvents
  /\ findByOrganizationAndUser(memberships, organizationId, userId) = {}
  /\ IF okCalls >= 2
       THEN /\ log' = publish(log, "organization.member.added",
                              createEvent(nextEventId, "MemberAdded",
                                          organizationId, userId, role, NoLimits))
            /\ nextEventId' = nextEventId + 1
       ELSE UNCHANGED <<log, nextEventId>>
  /\ memberships' =
       IF okCalls >= 3
         THEN memberships \cup {[organization_id |-> organizationId,
                                 user_id |-> userId, role |-> role]}
         ELSE memberships
  /\ UNCHANGED <<organizations, billingVars, position, committed, storeVars,
                 now, historyVars, auditVars, notifVars, loopVars, inflight, invitations>>

\* Each operation is a lookup, the write and the publish, in that order; the
\* first okCalls calls succeed and the next one throws, which ends the
\* operation where it is.
addMember(organizationId, userId, role, okCalls) ==
  /\ nextEventId <= MaxEvents
  /\ findByOrganizationAndUser(memberships, organizationId, userId) = {}
  /\ memberships' =
       IF okCalls >= 2
         THEN memberships \cup {[organization_id |-> organizationId,
                                 user_id |-> userId, role |-> role]}
         ELSE memberships
  /\ IF okCalls >= 3
       THEN /\ log' = publish(log, "organization.member.added",
                              createEvent(nextEventId, "MemberAdded",
                                          organizationId, userId, role, NoLimits))
            /\ nextEventId' = nextEventId + 1
       ELSE UNCHANGED <<log, nextEventId>>
  /\ UNCHANGED <<organizations, billingVars, position, committed, storeVars,
                 now, historyVars, auditVars, notifVars, loopVars, inflight, invitations>>

removeMember(organizationId, userId, okCalls) ==
  /\ nextEventId <= MaxEvents
  /\ findByOrganizationAndUser(memberships, organizationId, userId) # {}
  /\ memberships' =
       IF okCalls >= 2
         THEN memberships \
                findByOrganizationAndUser(memberships, organizationId, userId)
         ELSE memberships
  /\ IF okCalls >= 3
       THEN /\ log' = publish(log, "organization.member.removed",
                              createEvent(nextEventId, "MemberRemoved",
                                          organizationId, userId, Nil, NoLimits))
            /\ nextEventId' = nextEventId + 1
       ELSE UNCHANGED <<log, nextEventId>>
  /\ UNCHANGED <<organizations, billingVars, position, committed, storeVars,
                 now, historyVars, auditVars, notifVars, loopVars, inflight, invitations>>

\* The membership id names the live row of (organizationId, userId).
changeRole(organizationId, userId, newRole, okCalls) ==
  /\ nextEventId <= MaxEvents
  /\ findByOrganizationAndUser(memberships, organizationId, userId) # {}
  /\ memberships' =
       IF okCalls >= 2
         THEN {IF m.organization_id = organizationId /\ m.user_id = userId
                 THEN [m EXCEPT !.role = newRole] ELSE m : m \in memberships}
         ELSE memberships
  /\ IF okCalls >= 3
       THEN /\ log' = publish(log, "organization.role.changed",
                              createEvent(nextEventId, "RoleChanged",
                                          organizationId, userId, newRole,
                                          NoLimits))
            /\ nextEventId' = nextEventId + 1
       ELSE UNCHANGED <<log, nextEventId>>
  /\ UNCHANGED <<organizations, billingVars, position, committed, storeVars,
                 now, historyVars, auditVars, notifVars, loopVars, inflight, invitations>>

\* ------------------------------------------------------------ billing-service
\* createSubscription, changePlan and an immediate cancelSubscription each end
\* by publishing EntitlementsUpdated with the plan's limits (0 for a limit the
\* plan leaves NULL, and all 0 on cancellation).
publishEntitlementsUpdated(organizationId, limits) ==
  /\ nextEventId <= MaxEvents
  /\ log' = publish(log, "billing.entitlements.updated",
                    createEvent(nextEventId, "EntitlementsUpdated",
                                organizationId, Nil, Nil, limits))
  /\ nextEventId' = nextEventId + 1
  /\ UNCHANGED <<orgVars, position, committed, storeVars, now, historyVars,
                 auditVars, notifVars, loopVars, inflight, invitations>>

\* SELECT * FROM subscriptions WHERE organization_id = $1 AND status = 'active'
subscriptionFindByOrganizationId(rows, organizationId) ==
  {r \in rows : r.organization_id = organizationId /\ r.status = "active"}

\* SELECT * FROM subscriptions WHERE id = $1
subscriptionFindById(rows, id) ==
  {r \in rows : r.id = id}

\* UPDATE subscriptions SET plan_id = $1, ... WHERE id = $4
updatePlan(rows, id, newPlanId) ==
  {IF r.id = id THEN [r EXCEPT !.plan_id = newPlanId] ELSE r : r \in rows}

\* UPDATE subscriptions SET status = CASE WHEN $1 THEN status ELSE 'cancelled'
\* END, cancel_at_period_end = $1 WHERE id = $2
cancel(rows, id, cancelAtPeriodEnd) ==
  {IF r.id = id
     THEN [r EXCEPT !.status = IF cancelAtPeriodEnd THEN @ ELSE "cancelled",
                    !.cancel_at_period_end = cancelAtPeriodEnd]
     ELSE r : r \in rows}

\* INSERT INTO entitlements ... ON CONFLICT (organization_id) DO UPDATE
entitlementUpsert(rows, organizationId, planId) ==
  {r \in rows : r.organization_id # organizationId}
    \cup {[organization_id |-> organizationId, plan_id |-> planId]}

\* DELETE FROM entitlements WHERE organization_id = $1
deleteByOrganizationId(rows, organizationId) ==
  {r \in rows : r.organization_id # organizationId}

\* A plan is named by its limits, a NULL limit being 0.
Plans == PlanLimits

\* Appends the event when the publish call is reached and succeeds.
publishWhen(reached, logs, topic, event) ==
  IF reached THEN publish(logs, topic, event) ELSE logs

\* createSubscription: planRepository.findById, findByOrganizationId (throws
\* when an active subscription exists), subscriptionRepository.create,
\* entitlementRepository.upsert, publish SubscriptionActivated, publish
\* EntitlementsUpdated. The first okCalls calls succeed, the next one throws.
createSubscription(organizationId, planId, okCalls) ==
  LET id == Cardinality(subscriptions) + 1
      free == subscriptionFindByOrganizationId(subscriptions, organizationId) = {}
      activated == free /\ okCalls >= 5
      updated == free /\ okCalls >= 6
      l1 == publishWhen(activated, log, "billing.subscription.activated",
              createEvent(nextEventId, "SubscriptionActivated", organizationId,
                          Nil, Nil, planId) @@ [subscriptionId |-> id])
  IN /\ nextEventId <= MaxEvents
     /\ Cardinality(subscriptions) < MaxSubscriptions
     /\ subscriptions' =
          IF free /\ okCalls >= 3
            THEN subscriptions \cup
                   {[id |-> id, organization_id |-> organizationId,
                     plan_id |-> planId, status |-> "active",
                     cancel_at_period_end |-> FALSE]}
            ELSE subscriptions
     /\ billing_entitlements' =
          IF free /\ okCalls >= 4
            THEN entitlementUpsert(billing_entitlements, organizationId, planId)
            ELSE billing_entitlements
     /\ log' = publishWhen(updated, l1, "billing.entitlements.updated",
                 createEvent(nextEventId + 1, "EntitlementsUpdated",
                             organizationId, Nil, Nil, planId))
     /\ nextEventId' = nextEventId + (IF activated THEN 1 ELSE 0)
                         + (IF updated THEN 1 ELSE 0)
     /\ UNCHANGED <<organizations, memberships, position, committed, storeVars,
                    now, historyVars, auditVars, notifVars, loopVars, inflight, invitations>>

\* changePlan: subscriptionRepository.findById, planRepository.findById twice,
\* updatePlan, entitlementRepository.upsert, publish SubscriptionChanged,
\* publish EntitlementsUpdated.
changePlan(subscriptionId, newPlanId, okCalls) ==
  LET found == subscriptionFindById(subscriptions, subscriptionId)
      subscription == CHOOSE r \in found : TRUE
      changed == found # {} /\ okCalls >= 6
      updated == found # {} /\ okCalls >= 7
      l1 == publishWhen(changed, log, "billing.subscription.changed",
              createEvent(nextEventId, "SubscriptionChanged",
                          subscription.organization_id, Nil, Nil, newPlanId)
                @@ [subscriptionId |-> subscriptionId])
  IN /\ nextEventId <= MaxEvents
     /\ subscriptions' =
          IF found # {} /\ okCalls >= 4
            THEN updatePlan(subscriptions, subscriptionId, newPlanId)
            ELSE subscriptions
     /\ billing_entitlements' =
          IF found # {} /\ okCalls >= 5
            THEN entitlementUpsert(billing_entitlements,
                                   subscription.organization_id, newPlanId)
            ELSE billing_entitlements
     /\ log' = publishWhen(updated, l1, "billing.entitlements.updated",
                 createEvent(nextEventId + 1, "EntitlementsUpdated",
                             subscription.organization_id, Nil, Nil, newPlanId))
     /\ nextEventId' = nextEventId + (IF changed THEN 1 ELSE 0)
                         + (IF updated THEN 1 ELSE 0)
     /\ UNCHANGED <<organizations, memberships, position, committed, storeVars,
                    now, historyVars, auditVars, notifVars, loopVars, inflight, invitations>>

\* cancelSubscription: subscriptionRepository.cancel (mapping the missing row
\* of an unknown id throws), publish SubscriptionCancelled, and for an
\* immediate cancellation entitlementRepository.deleteByOrganizationId and
\* publish EntitlementsUpdated with every limit 0.
cancelSubscription(subscriptionId, cancelAtPeriodEnd, okCalls) ==
  LET found == subscriptionFindById(subscriptions, subscriptionId)
      subscription == CHOOSE r \in found : TRUE
      cancelled == found # {} /\ okCalls >= 2
      cleared == found # {} /\ ~cancelAtPeriodEnd /\ okCalls >= 4
      l1 == publishWhen(cancelled, log, "billing.subscription.cancelled",
              createEvent(nextEventId, "SubscriptionCancelled",
                          subscription.organization_id, Nil, Nil, NoLimits)
                @@ [subscriptionId |-> subscriptionId])
  IN /\ nextEventId <= MaxEvents
     /\ subscriptions' =
          IF found # {} /\ okCalls >= 1
            THEN cancel(subscriptions, subscriptionId, cancelAtPeriodEnd)
            ELSE subscriptions
     /\ billing_entitlements' =
          IF found # {} /\ ~cancelAtPeriodEnd /\ okCalls >= 3
            THEN deleteByOrganizationId(billing_entitlements,
                                        subscription.organization_id)
            ELSE billing_entitlements
     /\ log' = publishWhen(cleared, l1, "billing.entitlements.updated",
                 createEvent(nextEventId + 1, "EntitlementsUpdated",
                             subscription.organization_id, Nil, Nil, NoLimits))
     /\ nextEventId' = nextEventId + (IF cancelled THEN 1 ELSE 0)
                         + (IF cleared THEN 1 ELSE 0)
     /\ UNCHANGED <<organizations, memberships, position, committed, storeVars,
                    now, historyVars, auditVars, notifVars, loopVars, inflight, invitations>>

\* ------------------------------------------------------------ initial state
NoMessage == [json |-> FALSE, eventId |-> 0]

NoResponse == [op |-> "none", status |-> "none", bearer |-> FALSE,
               organizationId |-> Nil, userId |-> Nil, hadEntry |-> FALSE,
               lookupFailed |-> FALSE, limited |-> FALSE, limit |-> 0]

Init ==
  /\ organizations = {[id |-> o, deleted |-> FALSE] : o \in Orgs}
  /\ memberships = {}
  /\ subscriptions = {}
  /\ billing_entitlements = {}
  /\ log = [t \in Topics |-> <<>>]
  /\ position = [t \in WorkflowTopics |-> 0]
  /\ committed = [t \in WorkflowTopics |-> 0]
  /\ nextEventId = 1
  /\ membership_cache = {}
  /\ entitlements_cache = {}
  /\ projects = {}
  /\ tasks = {}
  /\ now = 0
  /\ applied = {}
  /\ lastDelivered = [topic |-> Nil, message |-> NoMessage, repeated |-> FALSE]
  /\ response = NoResponse
  /\ audit_logs = {}
  /\ auditWorker = [w \in AuditWorkers |-> [pc |-> "idle", eventId |-> 0,
                                             outcome |-> "none"]]
  /\ notifications = {}
  /\ notification_deliveries = {}
  /\ notifyResult = [eventId |-> 0, outcome |-> "none", sent |-> FALSE]
  /\ inbox = [c \in Consumers |-> <<>>]
  /\ offset = [c \in Consumers |-> 0]
  /\ task_metrics = {}
  /\ inflight = {}
  /\ invitations = {}

\* ------------------------------------- Spec: producers, bus, workflow consumer
CacheTopics == {"organization.member.added", "organization.member.removed",
                "organization.role.changed", "billing.entitlements.updated"}

Next ==
  \/ \E o \in Orgs, u \in Users, r \in Roles : addMember(o, u, r, 3)
  \/ \E o \in Orgs, u \in Users : removeMember(o, u, 3)
  \/ \E o \in Orgs, u \in Users, r \in Roles : changeRole(o, u, r, 3)
  \/ \E o \in Orgs, l \in PlanLimits : publishEntitlementsUpdated(o, l)
  \/ \E t \in CacheTopics, k \in StoreCalls : EachMessage(t, k)
  \/ Commit
  \/ Restart

Spec == Init /\ [][Next]_vars

\* ------------------------------- SpecCache: events delivered to the consumer
\* What the bus can hand to the workflow consumer on a topic: the events the
\* producers create, an event of a schema version the handlers do not know,
\* and a payload that is not JSON. Every delivery may be a duplicate.
ValidMessages ==
  {createEvent(id, "MemberAdded", o, u, r, NoLimits) :
     id \in EventIds, o \in Orgs, u \in Users, r \in Roles}
  \cup {createEvent(id, "RoleChanged", o, u, r, NoLimits) :
     id \in EventIds, o \in Orgs, u \in Users, r \in Roles}
  \cup {createEvent(id, "MemberRemoved", o, u, Nil, NoLimits) :
     id \in EventIds, o \in Orgs, u \in Users}
  \cup {createEvent(id, "EntitlementsUpdated", o, Nil, Nil, l) :
     id \in EventIds, o \in Orgs, l \in PlanLimits}

PoisonMessages ==
  {[createEvent(1, "MemberAdded", o, u, "admin", NoLimits)
      EXCEPT !.eventVersion = "v2"] : o \in Orgs, u \in Users}
  \cup {[createEvent(1, "MemberRemoved", o, Nil, Nil, NoLimits)
      EXCEPT !.json = TRUE] : o \in Orgs}
  \cup {[createEvent(1, "MemberAdded", Nil, Nil, Nil, NoLimits)
      EXCEPT !.json = FALSE]}

Messages == ValidMessages \cup PoisonMessages

TopicType(topic) ==
  CASE topic = "organization.member.added" -> "MemberAdded"
    [] topic = "organization.member.removed" -> "MemberRemoved"
    [] topic = "organization.role.changed" -> "RoleChanged"
    [] topic = "billing.entitlements.updated" -> "EntitlementsUpdated"
    [] OTHER -> "OrganizationDeleted"

\* The deliveries explored on a topic: its own events with every id, and
\* with the first id the poison messages and the events of the other topics.
Deliverable(topic) ==
  {m \in Messages : m.eventType = TopicType(topic) \/ m.eventId = 1}

DeliverTo(topic, message, okCalls) ==
  LET res == eachMessage(Store, topic, message, okCalls, now)
  IN /\ membership_cache' = res.db.membership_cache
     /\ entitlements_cache' = res.db.entitlements_cache
     /\ projects' = res.db.projects
     /\ UNCHANGED <<orgVars, busVars, tasks, now, applied, response, auditVars,
                    notifVars, loopVars, inflight, invitations>>

\* A delivery; lastDelivered remembers the message applied last and whether
\* the applied delivery before it was of the same message on the same topic.
Deliver(topic, message, okCalls) ==
  /\ DeliverTo(topic, message, okCalls)
  /\ lastDelivered' =
       IF eachMessage(Store, topic, message, okCalls, now).outcome = "applied"
         THEN [topic |-> topic, message |-> message,
               repeated |-> (lastDelivered.topic = topic
                             /\ lastDelivered.message = message)]
         ELSE lastDelivered

DeliverUntracked(topic, message, okCalls) ==
  /\ DeliverTo(topic, message, okCalls)
  /\ UNCHANGED lastDelivered

NextCache ==
  \/ \E t \in CacheTopics : \E m \in Deliverable(t), k \in 0 .. 1 :
       Deliver(t, m, k)
  \/ Tick

SpecCache == Init /\ [][NextCache]_vars

\* -------------------------------------- SpecAuth: workflow auth middleware
\* WorkflowService.verifyMembership: membership !== null
verifyMembershipFailOpen(cache, organizationId, userId) ==
  TRUE

verifyMembership(cache, organizationId, userId) ==
  getMembership(cache, organizationId, userId).found

\* createAuthMiddleware: 401 without a Bearer header or x-user-id; with an
\* organization id, 403 unless verifyMembership; a throwing lookup lands in
\* the catch (401); otherwise next().
authMiddleware(cache, bearer, userId, organizationId, lookupOk) ==
  IF ~bearer THEN "401"
  ELSE IF userId = Nil THEN "401"
  ELSE IF organizationId # Nil
    THEN IF ~lookupOk THEN "401"
         ELSE IF ~verifyMembership(cache, organizationId, userId) THEN "403"
         ELSE "next"
  ELSE "next"

Callers == Users \cup {"U2"}

AuthMiddleware(bearer, userId, organizationId, lookupOk) ==
  /\ response' =
       [op |-> "auth",
        status |-> authMiddleware(membership_cache, bearer, userId,
                                  organizationId, lookupOk),
        bearer |-> bearer, organizationId |-> organizationId, userId |-> userId,
        hadEntry |-> (\E r \in membership_cache :
                        r.organization_id = organizationId /\ r.user_id = userId),
        lookupFailed |-> ~lookupOk, limited |-> FALSE, limit |-> 0]
  /\ UNCHANGED <<orgVars, busVars, storeVars, now, applied, lastDelivered,
                 auditVars, notifVars, loopVars, inflight, invitations>>

MemberTopics == {"organization.member.added", "organization.member.removed",
                 "organization.role.changed"}

NextAuth ==
  \/ \E t \in MemberTopics : \E m \in Deliverable(t), k \in 0 .. 1 :
       DeliverUntracked(t, m, k)
  \/ \E b \in BOOLEAN, u \in Callers \cup {Nil}, o \in Orgs \cup {Nil},
        ok \in BOOLEAN : AuthMiddleware(b, u, o, ok)

SpecAuth == Init /\ [][NextAuth]_vars

\* ------------------------------ SpecLimits: WorkflowService limit checks
\* SELECT * FROM projects WHERE id = $1 AND status != 'deleted'
findById(rows, id) ==
  {p \in rows : p.id = id /\ p.status # "deleted"}

\* createProject: the limit is looked at only inside `if (entitlements)`, and
\* then only when maxProjects is truthy; otherwise the project is inserted.
\* enforced tells whether a limit took part in the decision, limit which one.
createProject(cache, rows, id, organizationId) ==
  LET entitlements == getEntitlements(cache, organizationId)
      currentCount == countProjectsByOrganization(rows, organizationId)
      enforced == entitlements.found /\ entitlements.maxProjects # 0
      limit == IF enforced THEN entitlements.maxProjects ELSE 0
  IN IF enforced /\ currentCount >= entitlements.maxProjects
       THEN [rows |-> rows, status |-> "limit-reached", enforced |-> enforced,
             limit |-> limit]
       ELSE [rows |-> rows \cup {[id |-> id, organization_id |-> organizationId,
                                  status |-> "active"]},
             status |-> "created", enforced |-> enforced, limit |-> limit]

\* createTask: the project must exist and belong to the organization, then the
\* same pattern with maxTasks and the count of the organization's tasks.
createTask(cache, projectRows, rows, id, organizationId, projectId) ==
  LET entitlements == getEntitlements(cache, organizationId)
      currentCount == countTasksByOrganization(rows, organizationId)
      enforced == entitlements.found /\ entitlements.maxTasks # 0
      limit == IF enforced THEN entitlements.maxTasks ELSE 0
  IN IF findById(projectRows, projectId) = {}
       THEN [rows |-> rows, status |-> "not-found", enforced |-> FALSE, limit |-> 0]
     ELSE IF \E p \in findById(projectRows, projectId) :
               p.organization_id # organizationId
       THEN [rows |-> rows, status |-> "foreign", enforced |-> FALSE, limit |-> 0]
     ELSE IF enforced /\ currentCount >= entitlements.maxTasks
       THEN [rows |-> rows, status |-> "limit-reached", enforced |-> enforced,
             limit |-> limit]
       ELSE [rows |-> rows \cup {[id |-> id, organization_id |-> organizationId,
                                  project_id |-> projectId, status |-> "todo",
                                  assigned_to |-> Nil, completed_at |-> <<>>]},
             status |-> "created", enforced |-> enforced, limit |-> limit]

\* The calls of createProject in order: getEntitlements, countByOrganization
\* (only when an entitlement row was found), projectRepository.create,
\* eventPublisher.publish. The first okCalls calls succeed, the next one throws.
CreateProject(organizationId, createdBy, okCalls) ==
  LET id == Cardinality(projects) + 1
      res == createProject(entitlements_cache, projects, id, organizationId)
      createAt == IF getEntitlements(entitlements_cache, organizationId).found
                    THEN 3 ELSE 2
      written == res.status = "created" /\ okCalls >= createAt
      published == res.status = "created" /\ okCalls > createAt
  IN /\ Cardinality(projects) < MaxProjects
     /\ projects' = IF written THEN res.rows ELSE projects
     /\ IF published
          THEN /\ log' = publish(log, "workflow.project.created",
                                 createEvent(nextEventId, "ProjectCreated",
                                             organizationId, createdBy, Nil, NoLimits))
               /\ nextEventId' = nextEventId + 1
          ELSE UNCHANGED <<log, nextEventId>>
     /\ response' =
          [NoResponse EXCEPT !.op = "createProject",
             !.status = IF okCalls + 1 < createAt THEN "error"
                        ELSE IF res.status # "created" THEN res.status
                        ELSE IF published THEN "created" ELSE "error",
             !.organizationId = organizationId, !.userId = createdBy,
             !.hadEntry = (\E r \in entitlements_cache :
                             r.organization_id = organizationId),
             !.limited = res.enforced, !.limit = res.limit]
     /\ UNCHANGED <<orgVars, position, committed, membership_cache,
                    entitlements_cache, tasks, now, applied, lastDelivered,
                    auditVars, notifVars, loopVars, inflight, invitations>>

\* The calls of createTask in order: projectRepository.findById,
\* getEntitlements, countByOrganization (only when an entitlement row was
\* found), taskRepository.create, eventPublisher.publish.
CreateTask(organizationId, projectId, createdBy, okCalls) ==
  LET id == Cardinality(tasks) + 1
      res == createTask(entitlements_cache, projects, tasks, id, organizationId,
                        projectId)
      createAt == IF getEntitlements(entitlements_cache, organizationId).found
                    THEN 4 ELSE 3
      written == res.status = "created" /\ okCalls >= createAt
      published == res.status = "created" /\ okCalls > createAt
  IN /\ Cardinality(tasks) < MaxTasks
     /\ tasks' = IF written THEN res.rows ELSE tasks
     /\ IF published
          THEN /\ log' = publish(log, "workflow.task.created",
                                 createEvent(nextEventId, "TaskCreated",
                                             organizationId, createdBy, Nil, NoLimits))
               /\ nextEventId' = nextEventId + 1
          ELSE UNCHANGED <<log, nextEventId>>
     /\ response' =
          [NoResponse EXCEPT !.op = "createTask",
             !.status = IF okCalls < 1 THEN "error"
                        ELSE IF res.status \in {"not-found", "foreign"}
                          THEN res.status
                        ELSE IF okCalls + 1 < createAt THEN "error"
                        ELSE IF res.status # "created" THEN res.status
                        ELSE IF published THEN "created" ELSE "error",
             !.organizationId = organizationId, !.userId = createdBy,
             !.hadEntry = (\E r \in entitlements_cache :
                             r.organization_id = organizationId),
             !.limited = res.enforced, !.limit = res.limit]
     /\ UNCHANGED <<orgVars, position, committed, membership_cache,
                    entitlements_cache, projects, now, applied, lastDelivered,
                    auditVars, notifVars, loopVars, inflight, invitations>>

NextLimits ==
  \/ \E m \in Deliverable("billing.entitlements.updated"), k \in 0 .. 1 :
       DeliverUntracked("billing.entitlements.updated", m, k)
  \/ \E o \in Orgs, u \in Users : CreateProject(o, u, 4)
  \/ \E o \in Orgs, p \in 1 .. MaxProjects, u \in Users : CreateTask(o, p, u, 5)

SpecLimits == Init /\ [][NextLimits]_vars

\* ------------------------- SpecRequests: the request path of workflow-service
\* getMembershipRole: membership?.role || null
getMembershipRole(cache, organizationId, userId) ==
  getMembership(cache, organizationId, userId).role

\* A lookup that, on a miss, fills the cache with the answer it fetched.
GetMembershipRoleReadThrough(organizationId, userId, lookupOk) ==
  /\ membership_cache' =
       IF lookupOk /\ ~getMembership(membership_cache, organizationId, userId).found
         THEN upsertMembership(membership_cache, organizationId, userId,
                               "member", now)
         ELSE membership_cache
  /\ response' =
       [NoResponse EXCEPT !.op = "getMembershipRole",
          !.status = IF lookupOk THEN "member" ELSE "error",
          !.organizationId = organizationId, !.userId = userId,
          !.hadEntry = getMembership(membership_cache, organizationId,
                                     userId).found,
          !.lookupFailed = ~lookupOk]
  /\ UNCHANGED <<orgVars, busVars, entitlements_cache, projects, tasks, now,
                 applied, lastDelivered, auditVars, notifVars, loopVars, inflight, invitations>>

GetMembershipRole(organizationId, userId, lookupOk) ==
  /\ response' =
       [NoResponse EXCEPT !.op = "getMembershipRole",
          !.status = IF lookupOk
                       THEN getMembershipRole(membership_cache, organizationId,
                                              userId)
                       ELSE "error",
          !.organizationId = organizationId, !.userId = userId,
          !.hadEntry = getMembership(membership_cache, organizationId,
                                     userId).found,
          !.lookupFailed = ~lookupOk]
  /\ UNCHANGED <<orgVars, busVars, storeVars, now, applied, lastDelivered,
                 auditVars, notifVars, loopVars, inflight, invitations>>

\* archiveProject: projectRepository.findById, projectRepository.archive,
\* eventPublisher.publish('workflow.project.archived'). The first okCalls
\* calls succeed, the next one throws.
ArchiveProject(projectId, archivedBy, okCalls) ==
  LET found == findById(projects, projectId)
      project == CHOOSE p \in found : TRUE
      written == found # {} /\ okCalls >= 2
      published == found # {} /\ okCalls >= 3
  IN /\ nextEventId <= MaxEvents
     /\ projects' = IF written THEN archive(projects, projectId) ELSE projects
     /\ IF published
          THEN /\ log' = publish(log, "workflow.project.archived",
                                 createEvent(nextEventId, "ProjectArchived",
                                             project.organization_id, archivedBy,
                                             Nil, NoLimits))
               /\ nextEventId' = nextEventId + 1
          ELSE UNCHANGED <<log, nextEventId>>
     /\ response' =
          [NoResponse EXCEPT !.op = "archiveProject",
             !.status = IF okCalls < 1 THEN "error"
                        ELSE IF found = {} THEN "not-found"
                        ELSE IF published THEN "archived" ELSE "error",
             !.userId = archivedBy]
     /\ UNCHANGED <<orgVars, position, committed, membership_cache,
                    entitlements_cache, tasks, now, applied, lastDelivered,
                    auditVars, notifVars, loopVars, inflight, invitations>>

\* SELECT * FROM tasks WHERE id = $1
taskFindById(rows, id) ==
  {t \in rows : t.id = id}

\* An update that sets completed_at with 'done' and never clears it.
taskUpdateKeepCompleted(rows, id, status, assignedTo, at) ==
  {IF t.id = id
     THEN [t EXCEPT !.status = IF status # Nil THEN status ELSE @,
                    !.completed_at = IF status = "done" THEN <<at>> ELSE @,
                    !.assigned_to = IF assignedTo # Nil THEN assignedTo ELSE @]
     ELSE t : t \in rows}

\* UPDATE tasks SET <the fields the input names> WHERE id = $n; with a status
\* also completed_at = CURRENT_TIMESTAMP for 'done' and NULL otherwise.
\* completed_at is <<>> for NULL and <<t>> for the timestamp t.
taskUpdate(rows, id, status, assignedTo, at) ==
  {IF t.id = id
     THEN [t EXCEPT !.status = IF status # Nil THEN status ELSE @,
                    !.completed_at = IF status = Nil THEN @
                                     ELSE IF status = "done" THEN <<at>>
                                     ELSE <<>>,
                    !.assigned_to = IF assignedTo # Nil THEN assignedTo ELSE @]
     ELSE t : t \in rows}

TaskStatuses == {"done"}

\* updateTask: taskRepository.findById, taskRepository.update, publish
\* TaskUpdated, then TaskAssigned when the assignee changed and
\* TaskStatusChanged when the status changed, each a further publish call.
UpdateTask(taskId, status, assignedTo, updatedBy, okCalls) ==
  LET found == taskFindById(tasks, taskId)
      task == CHOOSE t \in found : TRUE
      written == found # {} /\ okCalls >= 2
      updated == found # {} /\ okCalls >= 3
      assign == found # {} /\ assignedTo # Nil /\ assignedTo # task.assigned_to
      change == found # {} /\ status # Nil /\ status # task.status
      assigned == assign /\ okCalls >= 4
      changed == change /\ okCalls >= (IF assign THEN 5 ELSE 4)
      e1 == createEvent(nextEventId, "TaskUpdated", task.organization_id,
                        updatedBy, Nil, NoLimits) @@ [taskId |-> taskId]
      e2 == createEvent(nextEventId + 1, "TaskAssigned", task.organization_id,
                        updatedBy, Nil, NoLimits)
              @@ [taskId |-> taskId, assignedTo |-> assignedTo]
      e3 == createEvent(nextEventId + (IF assigned THEN 2 ELSE 1),
                        "TaskStatusChanged", task.organization_id, updatedBy,
                        Nil, NoLimits)
              @@ [taskId |-> taskId, oldStatus |-> task.status,
                  newStatus |-> status]
      l1 == IF updated THEN publish(log, "workflow.task.updated", e1) ELSE log
      l2 == IF assigned THEN publish(l1, "workflow.task.assigned", e2) ELSE l1
      l3 == IF changed THEN publish(l2, "workflow.task.status-changed", e3)
                       ELSE l2
  IN /\ nextEventId <= MaxEvents
     /\ tasks' = IF written THEN taskUpdate(tasks, taskId, status, assignedTo, now)
                            ELSE tasks
     /\ log' = l3
     /\ nextEventId' = nextEventId + (IF updated THEN 1 ELSE 0)
                         + (IF assigned THEN 1 ELSE 0)
                         + (IF changed THEN 1 ELSE 0)
     /\ response' =
          [NoResponse EXCEPT !.op = "updateTask",
             !.status = IF okCalls < 1 THEN "error"
                        ELSE IF found = {} THEN "not-found"
                        ELSE IF updated /\ (assign => assigned)
                                /\ (change => changed)
                          THEN "updated" ELSE "error",
             !.userId = updatedBy]
     /\ UNCHANGED <<orgVars, position, committed, membership_cache,
                    entitlements_cache, projects, now, applied, lastDelivered,
                    auditVars, notifVars, loopVars, inflight, invitations>>

RequestOrgs == {"T1"}

\* The authenticated routes of workflow-service served while the consumer
\* applies membership and entitlement events; the stores answer every call.
NextRequests ==
  \/ \E t \in CacheTopics : \E m \in Deliverable(t) :
       /\ m.eventId = 1 /\ m.organizationId \in RequestOrgs
       /\ DeliverUntracked(t, m, MaxProjects + 2)
  \/ \E u \in Users, o \in RequestOrgs, ok \in BOOLEAN :
       AuthMiddleware(TRUE, u, o, ok)
  \/ \E u \in Users, o \in RequestOrgs, ok \in BOOLEAN :
       GetMembershipRole(o, u, ok)
  \/ \E o \in RequestOrgs, u \in Users :
       nextEventId <= MaxEvents /\ CreateProject(o, u, 4)
  \/ \E o \in RequestOrgs, p \in 1 .. MaxProjects, u \in Users :
       nextEventId <= MaxEvents /\ CreateTask(o, p, u, 5)
  \/ \E p \in 1 .. MaxProjects, u \in Users :
       nextEventId <= MaxEvents /\ ArchiveProject(p, u, 3)
  \/ \E t \in 1 .. MaxTasks, s \in TaskStatuses \cup {Nil},
        a \in Users \cup {Nil}, u \in Users :
       nextEventId <= MaxEvents /\ UpdateTask(t, s, a, u, 5)

SpecRequests == Init /\ [][NextRequests]_vars

\* ------------------------------------- SpecAudit: AuditService.recordEvent
\* SELECT * FROM audit_logs WHERE event_id = $1
auditFindByEventId(rows, eventId) ==
  {r \in rows : r.event_id = eventId}

\* An INSERT into a table without the UNIQUE constraint on event_id.
auditCreateNoUnique(rows, eventId) ==
  [rows |-> rows \cup {[id |-> Cardinality(rows) + 1, event_id |-> eventId]},
   ok |-> TRUE]

\* An INSERT ... ON CONFLICT (event_id) DO UPDATE: the record of a recorded
\* event id is replaced by the new one.
auditCreateOverwrite(rows, eventId) ==
  [rows |-> {r \in rows : r.event_id # eventId}
              \cup {[id |-> Cardinality(rows) + 1, event_id |-> eventId]},
   ok |-> TRUE]

\* INSERT INTO audit_logs (event_id, ...): event_id is UNIQUE, so the insert
\* of a recorded event id is refused and the query throws.
auditCreate(rows, eventId) ==
  IF \E r \in rows : r.event_id = eventId
    THEN [rows |-> rows, ok |-> FALSE]
    ELSE [rows |-> rows \cup {[id |-> Cardinality(rows) + 1, event_id |-> eventId]},
          ok |-> TRUE]

\* recordEvent run by one delivery without interruption: findByEventId,
\* return if the event is there, otherwise create.
recordEvent(rows, eventId, okCalls) ==
  IF okCalls < 1 THEN [rows |-> rows, outcome |-> "error"]
  ELSE IF auditFindByEventId(rows, eventId) # {}
    THEN [rows |-> rows, outcome |-> "duplicate"]
  ELSE IF okCalls < 2 THEN [rows |-> rows, outcome |-> "error"]
  ELSE [rows |-> auditCreate(rows, eventId).rows,
        outcome |-> IF auditCreate(rows, eventId).ok THEN "recorded" ELSE "error"]

\* recordEvent awaits twice; deliveries handled by different consumer
\* instances interleave at the awaits. First half: the lookup.
RecordEventFind(w, eventId) ==
  /\ auditWorker[w].pc = "idle"
  /\ auditWorker' =
       [auditWorker EXCEPT ![w] =
          IF auditFindByEventId(audit_logs, eventId) # {}
            THEN [pc |-> "idle", eventId |-> eventId, outcome |-> "duplicate"]
            ELSE [pc |-> "create", eventId |-> eventId, outcome |-> "none"]]
  /\ UNCHANGED <<orgVars, busVars, storeVars, now, historyVars, audit_logs,
                 notifVars, loopVars, inflight, invitations>>

\* Second half: the insert; a refused insert makes recordEvent throw.
RecordEventCreate(w) ==
  LET res == auditCreate(audit_logs, auditWorker[w].eventId)
  IN /\ auditWorker[w].pc = "create"
     /\ audit_logs' = res.rows
     /\ auditWorker' =
          [auditWorker EXCEPT ![w] =
             [pc |-> "idle", eventId |-> @.eventId,
              outcome |-> IF res.ok THEN "recorded" ELSE "error"]]
     /\ UNCHANGED <<orgVars, busVars, storeVars, now, historyVars, notifVars,
                    loopVars, inflight, invitations>>

\* SELECT * FROM audit_logs ORDER BY created_at DESC LIMIT $n: the newest
\* limit records (ids are handed out in insertion order).
auditQuery(rows, limit) ==
  {r \in rows : Cardinality({q \in rows : q.id > r.id}) < limit}

\* AuditService.query: a read; the response tells how many records came back.
AuditQuery(limit) ==
  /\ response' = [NoResponse EXCEPT !.op = "auditQuery",
                    !.limit = Cardinality(auditQuery(audit_logs, limit))]
  /\ UNCHANGED <<orgVars, busVars, storeVars, now, applied, lastDelivered,
                 auditVars, notifVars, loopVars, inflight, invitations>>

NextAudit ==
  \/ \E w \in AuditWorkers, id \in EventIds : RecordEventFind(w, id)
  \/ \E w \in AuditWorkers : RecordEventCreate(w)
  \/ \E limit \in 1 .. MaxRows : AuditQuery(limit)

SpecAudit == Init /\ [][NextAudit]_vars

\* ------------------------- SpecNotif: NotificationService.createNotification
MaxAttempts == 3

NotificationTypes == {"email", "in_app"}

\* SELECT * FROM notification_deliveries WHERE event_id = $1
deliveryFindByEventId(rows, eventId) ==
  {d \in rows : d.event_id = eventId}

\* UPDATE notification_deliveries SET status = ... WHERE id = $1
markAsSent(rows, id) ==
  {IF d.id = id THEN [d EXCEPT !.status = "sent"] ELSE d : d \in rows}

markAsRetrying(rows, id) ==
  {IF d.id = id THEN [d EXCEPT !.status = "retrying", !.attempts = @ + 1]
   ELSE d : d \in rows}

markAsFailed(rows, id) ==
  {IF d.id = id THEN [d EXCEPT !.status = "failed", !.attempts = @ + 1]
   ELSE d : d \in rows}

\* createNotification: the store calls are, in order, findByEventId,
\* notificationRepository.create, deliveryRepository.create, then after the
\* send findByEventId and markAsSent (send worked) or findByEventId and
\* markAsRetrying / markAsFailed (send threw, and the error is rethrown). Each
\* call is its own statement on the pool: what an earlier call wrote stays
\* when a later one throws. The notifications table has no event id column;
\* for_event records which delivery wrote the row.
createNotification(ns, ds, eventId, type, okCalls, sendOk) ==
  LET n == [id |-> Cardinality(ns) + 1, type |-> type, for_event |-> eventId]
      d == [id |-> Cardinality(ds) + 1, event_id |-> eventId,
            notification_id |-> n.id, status |-> "pending", attempts |-> 0]
      ns1 == ns \cup {n}
      ds1 == ds \cup {d}
  IN IF okCalls < 1
       THEN [ns |-> ns, ds |-> ds, outcome |-> "error", sent |-> FALSE]
     ELSE IF deliveryFindByEventId(ds, eventId) # {}
       THEN [ns |-> ns, ds |-> ds, outcome |-> "duplicate", sent |-> FALSE]
     ELSE IF okCalls < 2
       THEN [ns |-> ns, ds |-> ds, outcome |-> "error", sent |-> FALSE]
     ELSE IF okCalls < 3
       THEN [ns |-> ns1, ds |-> ds, outcome |-> "error", sent |-> FALSE]
     ELSE IF okCalls < 5
       THEN [ns |-> ns1, ds |-> ds1, outcome |-> "error", sent |-> sendOk]
     ELSE IF sendOk
       THEN [ns |-> ns1, ds |-> markAsSent(ds1, d.id), outcome |-> "sent",
             sent |-> TRUE]
     ELSE [ns |-> ns1,
           ds |-> IF d.attempts < MaxAttempts THEN markAsRetrying(ds1, d.id)
                  ELSE markAsFailed(ds1, d.id),
           outcome |-> "error", sent |-> FALSE]

CreateNotification(eventId, type, okCalls, sendOk) ==
  LET res == createNotification(notifications, notification_deliveries,
                                eventId, type, okCalls, sendOk)
  IN /\ Cardinality(notifications) < MaxRows
     /\ notifications' = res.ns
     /\ notification_deliveries' = res.ds
     /\ notifyResult' = [eventId |-> eventId, outcome |-> res.outcome,
                         sent |-> res.sent]
     /\ UNCHANGED <<orgVars, busVars, storeVars, now, historyVars, auditVars,
                    loopVars, inflight, invitations>>

NextNotif ==
  \E id \in EventIds, type \in NotificationTypes, k \in 0 .. 5, ok \in BOOLEAN :
    CreateNotification(id, type, k, ok)

SpecNotif == Init /\ [][NextNotif]_vars

\* --------------------------------- SpecLoop: the five consumers' run loops
\* The other four callbacks have the shape of the workflow one: JSON.parse
\* and the handler inside try, a catch that only logs. settled is what the
\* promise handed back to the consumer's run loop does.
InvitationSentEventSchema(event) ==
  /\ event.eventType = "InvitationSent" /\ event.eventVersion = "v1"
  /\ event.organizationId # Nil /\ event.role # Nil

TaskCreatedEventSchema(event) ==
  /\ event.eventType = "TaskCreated" /\ event.eventVersion = "v1"
  /\ event.organizationId # Nil /\ event.userId # Nil

OrganizationCreatedEventSchema(event) ==
  /\ event.eventType = "OrganizationCreated" /\ event.eventVersion = "v1"
  /\ event.organizationId # Nil /\ event.userId # Nil

\* audit-service: recordEvent takes any parsed event.
auditEachMessage(rows, message, okCalls) ==
  IF ~message.json THEN [rows |-> rows, settled |-> "resolved"]
  ELSE [rows |-> recordEvent(rows, message.eventId, okCalls).rows,
        settled |-> "resolved"]

\* notification-service, topic organization.invitation.sent:
\* handleInvitationSent parses the schema and creates an email notification;
\* its own catch logs what the schema or createNotification throws.
handleInvitationSent(ns, ds, event, okCalls, sendOk) ==
  IF ~InvitationSentEventSchema(event) THEN [ns |-> ns, ds |-> ds]
  ELSE [ns |-> createNotification(ns, ds, event.eventId, "email", okCalls, sendOk).ns,
        ds |-> createNotification(ns, ds, event.eventId, "email", okCalls, sendOk).ds]

notificationEachMessage(ns, ds, message, okCalls, sendOk) ==
  IF ~message.json THEN [ns |-> ns, ds |-> ds, settled |-> "resolved"]
  ELSE [ns |-> handleInvitationSent(ns, ds, message, okCalls, sendOk).ns,
        ds |-> handleInvitationSent(ns, ds, message, okCalls, sendOk).ds,
        settled |-> "resolved"]

\* INSERT INTO task_metrics ... ON CONFLICT (organization_id, project_id, date)
\* DO UPDATE SET tasks_created = task_metrics.tasks_created + EXCLUDED.tasks_created
\* (one project and one day here).
upsertTaskMetrics(rows, organizationId, tasksCreated) ==
  IF \E r \in rows : r.organization_id = organizationId
    THEN {IF r.organization_id = organizationId
            THEN [r EXCEPT !.tasks_created = @ + tasksCreated] ELSE r : r \in rows}
    ELSE rows \cup {[organization_id |-> organizationId,
                     tasks_created |-> tasksCreated]}

\* analytics-service, topic workflow.task.created: processTaskCreated
processTaskCreated(rows, event, okCalls) ==
  IF ~TaskCreatedEventSchema(event) THEN rows
  ELSE IF okCalls < 1 THEN rows
  ELSE upsertTaskMetrics(rows, event.organizationId, 1)

analyticsEachMessage(rows, message, okCalls) ==
  IF ~message.json THEN [rows |-> rows, settled |-> "resolved"]
  ELSE [rows |-> processTaskCreated(rows, message, okCalls), settled |-> "resolved"]

\* billing-service, topic organization.created: handleOrganizationCreated
\* validates and logs; nothing is written.
billingEachMessage(message) ==
  [settled |-> "resolved"]

\* What is put on a consumer's partition: an event its handler accepts, an
\* event of an unknown schema version, and a payload that is not JSON.
Accepted(c) ==
  CASE c = "workflow" -> createEvent(1, "MemberAdded", "T1", "U1", "admin", NoLimits)
    [] c = "audit" -> createEvent(1, "MemberAdded", "T1", "U1", "admin", NoLimits)
    [] c = "notification" ->
         createEvent(1, "InvitationSent", "T1", "U1", "member", NoLimits)
    [] c = "analytics" -> createEvent(1, "TaskCreated", "T1", "U1", Nil, NoLimits)
    [] OTHER -> createEvent(1, "OrganizationCreated", "T1", "U1", Nil, NoLimits)

InboxMessages(c) ==
  {Accepted(c), [Accepted(c) EXCEPT !.eventVersion = "v2"],
   [Accepted(c) EXCEPT !.json = FALSE]}

\* Every catch block logs and ends in "TODO: Send to dead-letter queue": no
\* consumer has a dead-letter sink, and no offset is ever put aside in one.
deadLettered(c) ==
  {}

RECURSIVE InFlight(_)
InFlight(cs) ==
  IF cs = {} THEN 0
  ELSE LET c == CHOOSE x \in cs : TRUE
       IN Len(inbox[c]) + InFlight(cs \ {c})

Produce(c, message) ==
  /\ InFlight(Consumers) < MaxInbox
  /\ inbox' = [inbox EXCEPT ![c] = Append(@, message)]
  /\ UNCHANGED <<orgVars, busVars, storeVars, now, historyVars, auditVars,
                 notifVars, offset, task_metrics, inflight, invitations>>

\* One turn of a run loop: the next message goes to the callback, and the
\* offset moves on when the callback's promise resolves.
Advance(c, settled) ==
  offset' = [offset EXCEPT ![c] = IF settled = "resolved" THEN @ + 1 ELSE @]

ConsumeWorkflow ==
  \E k \in 0 .. 1 :
    LET res == eachMessage(Store, "organization.member.added",
                           inbox["workflow"][offset["workflow"] + 1], k, now)
    IN /\ offset["workflow"] < Len(inbox["workflow"])
       /\ membership_cache' = res.db.membership_cache
       /\ entitlements_cache' = res.db.entitlements_cache
       /\ projects' = res.db.projects
       /\ Advance("workflow", res.settled)
       /\ UNCHANGED <<orgVars, busVars, tasks, now, historyVars, auditVars,
                      notifVars, inbox, task_metrics, inflight, invitations>>

ConsumeAudit ==
  \E k \in 0 .. 2 :
    LET res == auditEachMessage(audit_logs,
                                inbox["audit"][offset["audit"] + 1], k)
    IN /\ offset["audit"] < Len(inbox["audit"])
       /\ audit_logs' = res.rows
       /\ Advance("audit", res.settled)
       /\ UNCHANGED <<orgVars, busVars, storeVars, now, historyVars, auditWorker,
                      notifVars, inbox, task_metrics, inflight, invitations>>

ConsumeNotification ==
  \E k \in 0 .. 5, sendOk \in BOOLEAN :
    LET res == notificationEachMessage(
                 notifications, notification_deliveries,
                 inbox["notification"][offset["notification"] + 1], k, sendOk)
    IN /\ offset["notification"] < Len(inbox["notification"])
       /\ notifications' = res.ns
       /\ notification_deliveries' = res.ds
       /\ Advance("notification", res.settled)
       /\ UNCHANGED <<orgVars, busVars, storeVars, now, historyVars, auditVars,
                      notifyResult, inbox, task_metrics, inflight, invitations>>

ConsumeAnalytics ==
  \E k \in 0 .. 1 :
    LET res == analyticsEachMessage(
                 task_metrics, inbox["analytics"][offset["analytics"] + 1], k)
    IN /\ offset["analytics"] < Len(inbox["analytics"])
       /\ task_metrics' = res.rows
       /\ Advance("analytics", res.settled)
       /\ UNCHANGED <<orgVars, busVars, storeVars, now, historyVars, auditVars,
                      notifVars, inbox, inflight, invitations>>

ConsumeBilling ==
  LET res == billingEachMessage(inbox["billing"][offset["billing"] + 1])
  IN /\ offset["billing"] < Len(inbox["billing"])
     /\ Advance("billing", res.settled)
     /\ UNCHANGED <<orgVars, busVars, storeVars, now, historyVars, auditVars,
                    notifVars, inbox, task_metrics, inflight, invitations>>

NextLoop ==
  \/ \E c \in Consumers : \E m \in InboxMessages(c) : Produce(c, m)
  \/ ConsumeWorkflow
  \/ ConsumeAudit
  \/ ConsumeNotification
  \/ ConsumeAnalytics
  \/ ConsumeBilling

\* consumer.run keeps fetching: a run loop with a message waiting takes it.
SpecLoop ==
  /\ Init /\ [][NextLoop]_vars
  /\ WF_vars(ConsumeWorkflow) /\ WF_vars(ConsumeAudit)
  /\ WF_vars(ConsumeNotification) /\ WF_vars(ConsumeAnalytics)
  /\ WF_vars(ConsumeBilling)

\* ----------------------------- SpecSaga: the organization-deletion workflow
\* UPDATE organizations SET deleted_at = CURRENT_TIMESTAMP
\* WHERE id = $1 AND deleted_at IS NULL
softDelete(rows, id) ==
  {IF r.id = id /\ ~r.deleted THEN [r EXCEPT !.deleted = TRUE] ELSE r : r \in rows}

\* SELECT * FROM memberships WHERE organization_id = $1 AND deleted_at IS NULL
membershipsFindByOrganization(rows, organizationId) ==
  {m \in rows : m.organization_id = organizationId}

\* deleteOrganization: soft delete of the organization, then of each of its
\* memberships, then the publish; each is its own awaited call, and the first
\* one that throws ends the operation with what was written so far. okCalls
\* counts the calls that succeed, the publish being the last one.
deleteOrganization(organizationId, deletedBy, okCalls) ==
  LET found == membershipsFindByOrganization(memberships, organizationId)
      n == Cardinality(found)
      gone == IF okCalls >= n + 2 THEN found
              ELSE IF okCalls <= 2 THEN {}
              ELSE CHOOSE S \in SUBSET found : Cardinality(S) = okCalls - 2
  IN /\ nextEventId <= MaxEvents
     /\ organizations' = IF okCalls >= 1 THEN softDelete(organizations, organizationId)
                         ELSE organizations
     /\ memberships' = memberships \ gone
     /\ IF okCalls >= n + 3
          THEN /\ log' = publish(log, "organization.deleted",
                                 createEvent(nextEventId, "OrganizationDeleted",
                                             organizationId, deletedBy, Nil, NoLimits))
               /\ nextEventId' = nextEventId + 1
          ELSE UNCHANGED <<log, nextEventId>>
     /\ UNCHANGED <<billingVars, position, committed, storeVars, now,
                    historyVars, auditVars, notifVars, loopVars, inflight, invitations>>

\* One organization is taken through its deletion. The deletion events travel
\* over the bus to the workflow consumer; the entitlement events of
\* billing-service are handed to it directly.
SagaOrgs == {"T1"}

SagaEntitlements ==
  {m \in Deliverable("billing.entitlements.updated") :
     m.eventId = 1 /\ m.organizationId \in SagaOrgs}

NextSaga ==
  \/ \E o \in SagaOrgs, u \in Users :
       \E k \in 0 .. (Cardinality(Users) + 3) : deleteOrganization(o, u, k)
  \/ \E o \in SagaOrgs, u \in Users, r \in Roles : addMember(o, u, r, 3)
  \/ \E m \in SagaEntitlements, k \in 0 .. 1 :
       DeliverUntracked("billing.entitlements.updated", m, k)
  \/ \E k \in StoreCalls : EachMessage("organization.deleted", k)
  \/ \E o \in SagaOrgs, u \in Users : CreateProject(o, u, 4)
  \/ Commit
  \/ Restart

SpecSaga == Init /\ [][NextSaga]_vars

\* consumer.run keeps fetching and committing, and a store that is down comes
\* back: a deletion event that stays available is in the end handled with
\* every store call succeeding.
SpecSagaFair ==
  /\ SpecSaga
  /\ SF_vars(EachMessage("organization.deleted", MaxProjects + 2))
  /\ WF_vars(Commit)

\* ------------------- SpecRace: createProject requests that run concurrently
\* createProject awaits getEntitlements and countByOrganization, and then
\* awaits projectRepository.create: another request can run between the two.
\* First half: the limit check; a request that passes it is in flight.
CreateProjectCheck(organizationId, createdBy) ==
  LET res == createProject(entitlements_cache, projects, 0, organizationId)
      request == [op |-> "createProject", organizationId |-> organizationId,
                  userId |-> createdBy, planId |-> Nil]
  IN /\ request \notin inflight
     /\ IF res.status = "created"
          THEN inflight' = inflight \cup {request} /\ UNCHANGED response
          ELSE /\ response' =
                    [NoResponse EXCEPT !.op = "createProject",
                       !.status = res.status,
                       !.organizationId = organizationId, !.userId = createdBy,
                       !.hadEntry = TRUE, !.limited = res.enforced,
                       !.limit = res.limit]
               /\ UNCHANGED inflight
     /\ UNCHANGED <<orgVars, busVars, storeVars, now, applied, lastDelivered,
                    auditVars, notifVars, loopVars,
                    invitations>>

\* Second half: the insert and the publish.
CreateProjectInsert(request) ==
  /\ request \in inflight /\ request.op = "createProject"
  /\ Cardinality(projects) < MaxProjects
  /\ projects' = projects \cup
       {[id |-> Cardinality(projects) + 1,
         organization_id |-> request.organizationId, status |-> "active"]}
  /\ log' = publish(log, "workflow.project.created",
                    createEvent(nextEventId, "ProjectCreated",
                                request.organizationId, request.userId, Nil,
                                NoLimits))
  /\ nextEventId' = nextEventId + 1
  /\ inflight' = inflight \ {request}
  /\ response' = [NoResponse EXCEPT !.op = "createProject",
                    !.status = "created",
                    !.organizationId = request.organizationId,
                    !.userId = request.userId]
  /\ UNCHANGED <<orgVars, position, committed, membership_cache,
                 entitlements_cache, tasks, now, applied, lastDelivered,
                 auditVars, notifVars, loopVars,
                    invitations>>

\* The tenant's entitlement entry is written once, before any request, and
\* stays as it is while two users send requests.
NextRace ==
  \/ \E m \in SagaEntitlements :
       /\ entitlements_cache = {} /\ projects = {} /\ tasks = {}
       /\ inflight = {}
       /\ DeliverUntracked("billing.entitlements.updated", m, MaxProjects + 2)
  \/ \E o \in SagaOrgs, u \in Callers : CreateProjectCheck(o, u)
  \/ \E request \in inflight : CreateProjectInsert(request)
  \/ \E o \in SagaOrgs, p \in 1 .. MaxProjects, u \in Callers :
       CreateTask(o, p, u, 5)

SpecRace == Init /\ [][NextRace]_vars

\* ------------------ SpecPublish: the state-changing operations with failures
\* The three owning services share no table and no topic, so one service at a
\* time is taken through its operations, with every store call and every
\* publish call able to fail. Tasks are created in the first project and the
\* first task is the one updated.
PublishOrgs == {"T1"}

orgBusy == memberships # {} \/ \E o \in organizations : o.deleted
billingBusy == subscriptions # {} \/ billing_entitlements # {}
workflowBusy == projects # {} \/ tasks # {}

NextPublish ==
  \/ /\ ~billingBusy /\ ~workflowBusy
     /\ \/ \E o \in PublishOrgs, u \in Users, r \in Roles, k \in 0 .. 3 :
             addMember(o, u, r, k)
        \/ \E o \in PublishOrgs, u \in Users, k \in 0 .. 3 :
             removeMember(o, u, k)
        \/ \E o \in PublishOrgs, u \in Users, r \in Roles, k \in 0 .. 3 :
             changeRole(o, u, r, k)
        \/ \E o \in PublishOrgs, u \in Users,
              k \in 0 .. (Cardinality(Users) + 3) : deleteOrganization(o, u, k)
  \/ /\ ~orgBusy /\ ~workflowBusy /\ nextEventId < MaxEvents
     /\ \/ \E o \in PublishOrgs, p \in Plans, k \in 0 .. 6 :
             createSubscription(o, p, k)
        \/ \E id \in 1 .. MaxSubscriptions, p \in Plans, k \in 0 .. 7 :
             changePlan(id, p, k)
        \/ \E id \in 1 .. MaxSubscriptions, c \in BOOLEAN, k \in 0 .. 4 :
             cancelSubscription(id, c, k)
  \/ /\ ~orgBusy /\ ~billingBusy /\ nextEventId < MaxEvents
     /\ \/ \E o \in PublishOrgs, u \in Users, k \in 0 .. 3 :
             CreateProject(o, u, k)
        \/ \E o \in PublishOrgs, u \in Users, k \in 0 .. 4 :
             CreateTask(o, 1, u, k)
        \/ \E s \in TaskStatuses \cup {Nil}, a \in Users \cup {Nil},
              u \in Users, k \in 0 .. 5 : UpdateTask(1, s, a, u, k)

SpecPublish == Init /\ [][NextPublish]_vars

\* The code keeps no saga record. What an observer of all the stores and the
\* bus can say about the deletion of an organization: Pending before anything
\* is written; Completed once the workflow consumer has applied an
\* OrganizationDeleted event for it; Failed once such an event lies below the
\* committed offset without having been applied (it will not be delivered
\* again); InProgress otherwise.
isDeleted(organizationId) ==
  \E r \in organizations : r.id = organizationId /\ r.deleted

DeletionOffsets(organizationId) ==
  {i \in 1 .. Len(log["organization.deleted"]) :
     log["organization.deleted"][i].organizationId = organizationId}

sagaStatus(organizationId) ==
  IF ~isDeleted(organizationId) /\ DeletionOffsets(organizationId) = {}
    THEN "Pending"
  ELSE IF \E i \in DeletionOffsets(organizationId) :
            log["organization.deleted"][i].eventId \in applied
    THEN "Completed"
  ELSE IF \E i \in DeletionOffsets(organizationId) :
            i <= committed["organization.deleted"]
    THEN "Failed"
  ELSE "InProgress"

\* What the steps of the deletion have written for an organization.
StepRecords(organizationId) ==
  <<isDeleted(organizationId),
    membershipsFindByOrganization(memberships, organizationId),
    {p \in projects : p.organization_id = organizationId},
    entitlementRows(entitlements_cache, organizationId)>>

OrganizationStepDone(organizationId) ==
  /\ isDeleted(organizationId)
  /\ membershipsFindByOrganization(memberships, organizationId) = {}

WorkflowStepDone(organizationId) ==
  /\ \A p \in projects : p.organization_id = organizationId => p.status = "archived"
  /\ entitlementRows(entitlements_cache, organizationId) = {}

\* ---------------------------------------------------------- what is observed
\* What a reader of the membership cache can tell: the keys and their roles.
MembershipView(cache) ==
  {<<r.organization_id, r.user_id, r.role>> : r \in cache}

EntitlementView(cache) ==
  {<<r.organization_id, r.max_projects, r.max_tasks, r.max_members>> : r \in cache}

Published == UNION {{log[t][i] : i \in 1 .. Len(log[t])} : t \in CacheTopics}

AllConsumed == \A t \in CacheTopics : position[t] = Len(log[t])

\* ------------------------------------------------------------------- claims
\* C4: events about one tenant and user are reflected in publish order: once
\* every published event has been consumed and applied, the membership cache
\* equals the memberships organization-service holds (the result of applying
\* the events in the order they were published).
C4_OrderWithinTenant ==
  (AllConsumed /\ {m.eventId : m \in Published} \subseteq applied)
    => MembershipView(membership_cache) = MembershipView(memberships)

\* C5: an event already applied is never reapplied: delivering a message
\* whose eventId has been applied before leaves the membership cache as it is.
C5_NeverReapplied ==
  [][\A t \in CacheTopics :
       (position'[t] = position[t] + 1
        /\ log[t][position[t] + 1].eventId \in applied)
         => MembershipView(membership_cache') = MembershipView(membership_cache)]_vars

\* C9: an event whose cache write failed is not treated as processed: every
\* message below the committed offset has had its effect applied.
C9_FailedEventNotProcessed ==
  \A t \in CacheTopics : \A i \in 1 .. committed[t] :
    log[t][i].eventId \in applied

\* C1: fail-closed membership: a request that carries an organization id for
\* which the membership cache holds no entry for its user, or whose cache
\* lookup fails, is never passed on to the route handler; with credentials
\* present and a working lookup the miss is answered 403.
C1_FailClosed ==
  (response.op = "auth" /\ response.organizationId # Nil)
    => /\ (~response.hadEntry \/ response.lookupFailed)
            => response.status \in {"401", "403"}
       /\ (~response.hadEntry /\ ~response.lookupFailed /\ response.bearer
           /\ response.userId # Nil) => response.status = "403"

C1_Witness ==
  /\ response.op = "auth" /\ response.status = "403"
  /\ response.organizationId # Nil /\ ~response.hadEntry
  /\ membership_cache # {}

\* C3: duplicate delivery is idempotent for the workflow caches: after a
\* MemberAdded or RoleChanged is applied there is exactly one entry for its
\* key, with its role (none after MemberRemoved, one row with the event's
\* limits after EntitlementsUpdated), and applying the same message again
\* changes neither the entries nor their payloads.
CacheView ==
  <<MembershipView(membership_cache), Cardinality(membership_cache),
    EntitlementView(entitlements_cache), Cardinality(entitlements_cache)>>

C3_AfterApplied ==
  LET m == lastDelivered.message
      rows == {r \in membership_cache : r.organization_id = m.organizationId
                                        /\ r.user_id = m.userId}
      ents == {r \in entitlements_cache : r.organization_id = m.organizationId}
  IN CASE lastDelivered.topic \in {"organization.member.added",
                                   "organization.role.changed"} ->
            Cardinality(rows) = 1 /\ \A r \in rows : r.role = m.role
       [] lastDelivered.topic = "organization.member.removed" -> rows = {}
       [] lastDelivered.topic = "billing.entitlements.updated" ->
            /\ Cardinality(ents) = 1
            /\ \A r \in ents : /\ r.max_projects = m.limits.maxProjects
                               /\ r.max_tasks = m.limits.maxTasks
                               /\ r.max_members = m.limits.maxMembers
       [] OTHER -> TRUE

C3_DuplicateIdempotent ==
  /\ [](C3_AfterApplied)
  /\ [][lastDelivered'.repeated => CacheView' = CacheView]_vars

C3_Witness ==
  /\ lastDelivered.repeated
  /\ lastDelivered.topic = "organization.member.added"
  /\ \E r \in membership_cache : r.cached_at > 0
  /\ C3_AfterApplied

\* C2: fail-open entitlements: when createProject or createTask reaches its
\* limit check for a tenant that has no entry in the entitlement cache, the
\* check is made against the documented default limit (10 projects, 100
\* tasks), so the tenant's creations stay bounded.
C2_DefaultLimitsApplied ==
  (/\ response.op \in {"createProject", "createTask"}
   /\ response.status \in {"created", "limit-reached"}
   /\ ~response.hadEntry)
    => /\ response.limited
       /\ response.limit = IF response.op = "createProject"
                             THEN DefaultMaxProjects ELSE DefaultMaxTasks

C7_OnePerEvent ==
  /\ \A n1, n2 \in notifications : n1.for_event = n2.for_event => n1 = n2
  /\ \A d1, d2 \in notification_deliveries : d1.event_id = d2.event_id => d1 = d2

\* C8: the notification row and the delivery record of its event commit
\* together: every notification has the delivery record of the event that
\* produced it.
C8_EffectWithRecord ==
  \A n \in notifications :
    \E d \in notification_deliveries :
      d.event_id = n.for_event /\ d.notification_id = n.id

\* C10: a poison message never blocks a partition: in each of the five
\* consumers every message put on the partition, whatever stands before it
\* (an unparsable payload, an event the handler rejects, a store failure), is
\* eventually passed by the consume loop.
C10_NeverBlocks ==
  \A c \in Consumers : \A i \in 1 .. MaxInbox :
    (Len(inbox[c]) >= i) ~> (offset[c] >= i)

C10_Witness ==
  /\ Len(inbox["workflow"]) >= 2
  /\ ~inbox["workflow"][1].json
  /\ offset["workflow"] = 2
  /\ \E r \in membership_cache : r.organization_id = "T1" /\ r.user_id = "U1"

\* C11: bounded retry, then dead-letter: no delivered message ends up neither
\* applied nor dead-lettered; in particular every message the consume loop
\* has passed that cannot be parsed, or whose schema version the handler does
\* not know, is in the consumer's dead-letter sink.
C11_AppliedOrDeadLettered ==
  \A c \in Consumers : \A i \in 1 .. offset[c] :
    \/ inbox[c][i].json /\ inbox[c][i].eventVersion = "v1"
    \/ i \in deadLettered(c)

\* C12: analytics consumers are idempotent: delivering the same TaskCreated
\* event N >= 1 times leaves the counter it had after one delivery, so an
\* organization's tasks_created never exceeds the number of distinct
\* TaskCreated events handed to the consumer for it.
C12_AnalyticsIdempotent ==
  \A r \in task_metrics :
    r.tasks_created <=
      Cardinality({inbox["analytics"][i].eventId :
                     i \in {j \in 1 .. offset["analytics"] :
                              /\ inbox["analytics"][j].json
                              /\ TaskCreatedEventSchema(inbox["analytics"][j])
                              /\ inbox["analytics"][j].organizationId
                                   = r.organization_id}})

\* C13: saga atomicity by compensation: when the workflow step of a deletion
\* has failed for good (its event lies below the committed offset and was not
\* applied), the completed first step is compensated: the organization is no
\* longer soft-deleted.
C13_FailedStepCompensated ==
  \A i \in 1 .. committed["organization.deleted"] :
    log["organization.deleted"][i].eventId \notin applied
      => ~isDeleted(log["organization.deleted"][i].organizationId)

\* C14: saga state machine: the status of a deletion moves only along
\* Pending -> InProgress -> Completed or Pending -> InProgress ->
\* Compensating -> Failed, and once it is Completed or Failed nothing changes
\* what its steps have written.
SagaTransitions ==
  {<<"Pending", "InProgress">>, <<"InProgress", "Completed">>,
   <<"InProgress", "Compensating">>, <<"Compensating", "Failed">>}

C14_SagaStateMachine ==
  [][\A o \in SagaOrgs :
       /\ sagaStatus(o)' # sagaStatus(o)
            => <<sagaStatus(o), sagaStatus(o)'>> \in SagaTransitions
       /\ sagaStatus(o) \in {"Completed", "Failed"}
            => StepRecords(o)' = StepRecords(o)]_vars

\* C15: saga progress: a deletion that is in progress eventually reaches
\* Completed or Failed.
C15_SagaProgress ==
  \A o \in SagaOrgs :
    (sagaStatus(o) = "InProgress") ~> (sagaStatus(o) \in {"Completed", "Failed"})

C17_RemovalWithoutAdd ==
  [][\A o \in Orgs, u \in Users :
       (/\ position'["organization.member.removed"]
             = position["organization.member.removed"] + 1
        /\ LET e == log["organization.member.removed"]
                       [position["organization.member.removed"] + 1]
           IN /\ e.organizationId = o /\ e.userId = u
              /\ \/ membershipRows(membership_cache, o, u) = {}
                 \/ e.eventId \in applied)
         => membership_cache' = membership_cache]_vars

\* C18: the request-path operations of workflow-service (verifyMembership,
\* getMembershipRole, createProject, createTask, archiveProject, updateTask)
\* never create, overwrite or delete a membership or entitlement cache entry,
\* also on a cache miss: a step that changes either cache is the consumer
\* applying an event.
C18_CachesWrittenOnlyByEvents ==
  [][(membership_cache' # membership_cache
        \/ entitlements_cache' # entitlements_cache)
       => \E t \in CacheTopics : \E m \in Deliverable(t), k \in StoreCalls :
            DeliverUntracked(t, m, k)]_vars

\* A role lookup and nothing else ran on a cache miss and the entry is still
\* missing, with the entitlement cache empty after projects were created.
C18_Witness ==
  /\ response.op = "getMembershipRole" /\ ~response.hadEntry
  /\ ~response.lookupFailed
  /\ membershipRows(membership_cache, response.organizationId,
                    response.userId) = {}
  /\ projects # {} /\ tasks # {}
  /\ entitlementRows(entitlements_cache, response.organizationId) = {}

\* What the event on a topic reports, read off the owning service's tables:
\* pre before and post after the step that published it.
reported(topic, e, pre, post) ==
  CASE topic \in {"organization.member.added", "organization.role.changed"} ->
         \E m \in post.memberships :
           /\ m.organization_id = e.organizationId
           /\ m.user_id = e.userId /\ m.role = e.role
    [] topic = "organization.member.removed" ->
         findByOrganizationAndUser(post.memberships, e.organizationId,
                                   e.userId) = {}
    [] topic = "organization.deleted" ->
         /\ \A o \in post.organizations : o.id = e.organizationId => o.deleted
         /\ membershipsFindByOrganization(post.memberships,
                                          e.organizationId) = {}
    [] topic = "billing.subscription.activated" ->
         \E r \in post.subscriptions \ pre.subscriptions :
           /\ r.id = e.subscriptionId /\ r.status = "active"
           /\ r.plan_id = e.limits
    [] topic = "billing.subscription.changed" ->
         \E r \in post.subscriptions :
           r.id = e.subscriptionId /\ r.plan_id = e.limits
    [] topic = "billing.subscription.cancelled" ->
         \E r \in post.subscriptions :
           /\ r.id = e.subscriptionId
           /\ (r.status = "cancelled" \/ r.cancel_at_period_end)
    [] topic = "billing.entitlements.updated" ->
         LET rows == {r \in post.billing_entitlements :
                        r.organization_id = e.organizationId}
         IN \/ \E r \in rows : r.plan_id = e.limits
            \/ rows = {} /\ e.limits = NoLimits
    [] topic = "workflow.project.created" ->
         \E p \in post.projects \ pre.projects :
           p.organization_id = e.organizationId
    [] topic = "workflow.task.created" ->
         \E t \in post.tasks \ pre.tasks :
           t.organization_id = e.organizationId
    [] topic = "workflow.task.updated" ->
         \E t \in post.tasks : t.id = e.taskId
    [] topic = "workflow.task.assigned" ->
         \E t \in post.tasks : t.id = e.taskId /\ t.assigned_to = e.assignedTo
    [] topic = "workflow.task.status-changed" ->
         \E t \in post.tasks : t.id = e.taskId /\ t.status = e.newStatus
    [] OTHER -> TRUE

\* C19: for every state-changing operation of organization-service,
\* billing-service and workflow-service, each fact event is published only
\* after the local write it reports has succeeded; when that write fails the
\* event is not published. A step that appends an event to a topic leaves the
\* owning service's tables with the write the event reports.
C19_PublishAfterCommit ==
  [][\A t \in Topics : \A i \in 1 .. Len(log'[t]) :
       i > Len(log[t]) =>
         reported(t, log'[t][i],
                  [memberships |-> memberships, organizations |-> organizations,
                   subscriptions |-> subscriptions,
                   billing_entitlements |-> billing_entitlements,
                   projects |-> projects, tasks |-> tasks],
                  [memberships |-> memberships',
                   organizations |-> organizations',
                   subscriptions |-> subscriptions',
                   billing_entitlements |-> billing_entitlements',
                   projects |-> projects', tasks |-> tasks'])]_vars

\* An immediate cancellation whose entitlement delete failed: the subscription
\* is cancelled and SubscriptionCancelled is out, the entitlement row is still
\* there and no EntitlementsUpdated reports it gone.
C19_Witness ==
  /\ \E r \in subscriptions : r.status = "cancelled"
  /\ Len(log["billing.subscription.cancelled"]) = 1
  /\ billing_entitlements # {}
  /\ \A i \in 1 .. Len(log["billing.entitlements.updated"]) :
       log["billing.entitlements.updated"][i].eventId
         < log["billing.subscription.cancelled"][1].eventId

\* C20: the audit log is append-only and immutable: across any sequence of
\* recordEvent and query calls no record is removed and each record keeps the
\* field values it was created with, so every record of a state is, unchanged,
\* a record of the next.
C20_AppendOnly ==
  [][audit_logs \subseteq audit_logs']_vars

\* Two events are on record, a later recordEvent of one of them ended as a
\* duplicate or was refused, and a query has read the log.
C20_Witness ==
  /\ Cardinality(audit_logs) >= 2
  /\ \E w \in AuditWorkers :
       /\ auditWorker[w].outcome \in {"duplicate", "error"}
       /\ auditFindByEventId(audit_logs, auditWorker[w].eventId) # {}
  /\ response.op = "auditQuery" /\ response.limit >= 2

\* C21: removal priority: while a MemberRemoved event for a tenant is queued
\* at the workflow consumer, the consumer handles no other queued update for
\* that tenant; the removal is applied first.
C21_RemovalFirst ==
  [][\A t \in CacheTopics \ {"organization.member.removed"} :
       position'[t] = position[t] + 1
         => ~\E i \in (position["organization.member.removed"] + 1)
                        .. Len(log["organization.member.removed"]) :
               log["organization.member.removed"][i].organizationId
                 = log[t][position[t] + 1].organizationId]_vars

\* C22: a notification whose send fails is retried, at most 3 attempts in
\* all, and its delivery record eventually reaches 'sent' or 'failed': no
\* delivery record stays 'pending' or 'retrying' forever.
C22_DeliverySettles ==
  \A id \in EventIds :
    (\E d \in notification_deliveries :
       d.event_id = id /\ d.status \in {"pending", "retrying"})
      ~> (\E d \in notification_deliveries :
            d.event_id = id /\ d.status \in {"sent", "failed"})

\* C23: plan limit enforcement: while the cached entitlement entry of a
\* tenant holds maxProjects = N > 0 and does not change, the tenant never has
\* more than N active projects, however createProject requests interleave;
\* likewise never more than maxTasks non-cancelled tasks.
C23_WithinPlanLimits ==
  \A o \in Orgs :
    LET e == getEntitlements(entitlements_cache, o)
    IN /\ (e.found /\ e.maxProjects > 0)
            => countProjectsByOrganization(projects, o) <= e.maxProjects
       /\ (e.found /\ e.maxTasks > 0)
            => countTasksByOrganization(tasks, o) <= e.maxTasks

\* C24: the caches are last-write-wins per key: each cache holds at most one
\* entry per key ((T,U) for membership, T for entitlements); an applied
\* MemberAdded, RoleChanged or EntitlementsUpdated leaves the entry of its
\* key equal to its payload, an applied MemberRemoved leaves none; and the
\* entries of every other key are left exactly as they were.
C24_LastWriteWins ==
  /\ [](/\ \A r1, r2 \in membership_cache :
             (r1.organization_id = r2.organization_id
              /\ r1.user_id = r2.user_id) => r1 = r2
        /\ \A r1, r2 \in entitlements_cache :
             r1.organization_id = r2.organization_id => r1 = r2)
  /\ [][(membership_cache' # membership_cache
           \/ entitlements_cache' # entitlements_cache)
          => LET t == lastDelivered'.topic
                 m == lastDelivered'.message
                 others(cache) ==
                   {r \in cache : ~(r.organization_id = m.organizationId
                                    /\ r.user_id = m.userId)}
                 otherOrgs(cache) ==
                   {r \in cache : r.organization_id # m.organizationId}
                 mine == membershipRows(membership_cache', m.organizationId,
                                        m.userId)
                 ents == entitlementRows(entitlements_cache',
                                         m.organizationId)
             IN IF t = "billing.entitlements.updated"
                  THEN /\ membership_cache' = membership_cache
                       /\ otherOrgs(entitlements_cache')
                            = otherOrgs(entitlements_cache)
                       /\ EntitlementView(ents)
                            = {<<m.organizationId, m.limits.maxProjects,
                                 m.limits.maxTasks, m.limits.maxMembers>>}
                  ELSE /\ entitlements_cache' = entitlements_cache
                       /\ others(membership_cache') = others(membership_cache)
                       /\ MembershipView(mine)
                            = IF t = "organization.member.removed" THEN {}
                              ELSE {<<m.organizationId, m.userId, m.role>>}]_vars

\* A MemberRemoved was applied last, it took its own entry away, and the
\* entry of another key and an entitlement entry are in the caches.
C24_Witness ==
  /\ lastDelivered.topic = "organization.member.removed"
  /\ membershipRows(membership_cache, lastDelivered.message.organizationId,
                    lastDelivered.message.userId) = {}
  /\ \E r \in membership_cache :
       r.organization_id # lastDelivered.message.organizationId
  /\ entitlements_cache # {}

\* ------------------------------------------------ rejected events (SpecRejected)
\* Schema.parse of the handler of a topic.
accepted(topic, message) ==
  CASE topic = "organization.member.added" -> MemberAddedEventSchema(message)
    [] topic = "organization.member.removed" -> MemberRemovedEventSchema(message)
    [] topic = "organization.role.changed" -> RoleChangedEventSchema(message)
    [] topic = "billing.entitlements.updated" ->
         EntitlementsUpdatedEventSchema(message)
    [] OTHER -> OrganizationDeletedEventSchema(message)

\* JSON.parse throws or the schema of the topic's handler refuses the event.
rejected(topic, message) == ~message.json \/ ~accepted(topic, message)

\* The payloads a topic's handler refuses: the poison messages (unparsable,
\* wrong version, missing field) and an event of another topic.
Rejectable(topic) ==
  {m \in Deliverable(topic) :
     /\ rejected(topic, m)
     /\ m.eventId = 1
     /\ m.organizationId \in SagaOrgs \cup {Nil}
     /\ (m \in PoisonMessages \/ m.eventType = "MemberRemoved")}

\* The events that fill the caches: one membership and one plan.
Acceptable(topic) ==
  {m \in Deliverable(topic) :
     /\ ~rejected(topic, m)
     /\ m.eventId = 1
     /\ m.organizationId \in SagaOrgs
     /\ m.role \in {Nil, "admin"}
     /\ m.limits.maxProjects = 0}

\* Any producer of the cluster puts a payload on a subscribed topic.
PublishRaw(topic, message) ==
  /\ Len(log["organization.member.added"])
       + Len(log["organization.member.removed"])
       + Len(log["organization.role.changed"])
       + Len(log["billing.entitlements.updated"])
       + Len(log["organization.deleted"]) < MaxInbox
  /\ log' = publish(log, topic, message)
  /\ UNCHANGED <<orgVars, position, committed, nextEventId, storeVars, now,
                 historyVars, auditVars, notifVars, loopVars, inflight, invitations>>

NextRejected ==
  \/ \E t \in CacheTopics : \E m \in Acceptable(t) :
       DeliverUntracked(t, m, MaxProjects + 2)
  \/ \E o \in SagaOrgs, u \in Users : CreateProject(o, u, 4)
  \/ \E t \in WorkflowTopics : \E m \in Rejectable(t) : PublishRaw(t, m)
  \/ \E t \in WorkflowTopics, k \in {0, MaxProjects + 2} : EachMessage(t, k)

SpecRejected == Init /\ [][NextRejected]_vars

\* C25: an event that fails JSON parsing or the schema of its topic's handler
\* leaves the membership cache, the entitlement cache and the projects as
\* they were, and the consumer goes on to the next message.
C25_RejectedChangesNothing ==
  /\ [](\A t \in WorkflowTopics :
          (position[t] < Len(log[t]) /\ rejected(t, log[t][position[t] + 1]))
            => \A k \in StoreCalls :
                 LET res == eachMessage(Store, t, log[t][position[t] + 1], k, now)
                 IN res.db = Store /\ res.settled = "resolved")
  /\ [][\A t \in WorkflowTopics :
          (position'[t] = position[t] + 1
           /\ rejected(t, log[t][position[t] + 1]))
            => /\ membership_cache' = membership_cache
               /\ entitlements_cache' = entitlements_cache
               /\ projects' = projects]_vars

C25_Witness ==
  /\ membership_cache # {}
  /\ entitlements_cache # {}
  /\ projects # {}
  /\ \E t \in WorkflowTopics :
       /\ position[t] = 2
       /\ ~log[t][1].json
       /\ log[t][2].json /\ rejected(t, log[t][2])

\* C26: the workflow step of a tenant deletion is all-or-nothing: when the
\* consumer has finished handling OrganizationDeleted for an organization,
\* either every project of the organization is archived and its entitlement
\* entry is gone, or projects and entitlement cache are as they were before.
C26_DeletionStepAtomic ==
  [][(position'["organization.deleted"] = position["organization.deleted"] + 1
      /\ accepted("organization.deleted",
                  log["organization.deleted"][position["organization.deleted"] + 1]))
       => LET o == log["organization.deleted"]
                     [position["organization.deleted"] + 1].organizationId
          IN \/ /\ \A p \in projects' :
                     p.organization_id = o => p.status = "archived"
                /\ ~\E e \in entitlements_cache' : e.organization_id = o
             \/ /\ projects' = projects
                /\ entitlements_cache' = entitlements_cache]_vars

\* ------------------------------------------- cleanup after deletion (SpecCleanup)
\* Members are added, organizations are deleted, every store and broker call
\* succeeds, and the workflow consumer keeps consuming what is published.
NextCleanup ==
  \/ \E o \in Orgs, u \in Users, r \in Roles : addMember(o, u, r, 3)
  \/ \E o \in Orgs, u \in Users :
       deleteOrganization(o, u, Cardinality(Users) + 3)
  \/ \E t \in WorkflowTopics : EachMessage(t, MaxProjects + 2)

SpecCleanup ==
  /\ Init /\ [][NextCleanup]_vars
  /\ \A t \in WorkflowTopics : WF_vars(EachMessage(t, MaxProjects + 2))

\* C27: once an organization is deleted (its memberships gone with it) and
\* the workflow consumer has consumed every published event, the membership
\* cache eventually holds no entry of the organization.
C27_MembershipCacheCleaned ==
  \A o \in Orgs :
    (/\ isDeleted(o)
     /\ membershipsFindByOrganization(memberships, o) = {}
     /\ \A t \in WorkflowTopics : position[t] = Len(log[t]))
      ~> ~\E r \in membership_cache : r.organization_id = o

\* ------------------------------------------------- the routes (SpecRoutes)
\* A route with createAuthMiddleware in front of its handler: the middleware
\* answers 401 or 403 itself, or calls next() and the handler runs.
guarded(userId, headerOrg, handler) ==
  IF authMiddleware(membership_cache, TRUE, userId, headerOrg, TRUE) = "next"
    THEN handler
    ELSE AuthMiddleware(TRUE, userId, headerOrg, TRUE)

\* res.status(400).json({ error: 'Organization ID required' })
organizationIdRequired(op, userId) ==
  /\ response' = [NoResponse EXCEPT !.op = op, !.status = "400", !.userId = userId]
  /\ UNCHANGED <<orgVars, busVars, storeVars, now, applied, lastDelivered,
                 auditVars, notifVars, loopVars, inflight, invitations>>

\* POST /projects: the organization id is the x-organization-id header or,
\* without it, req.body.organizationId.
PostProjects(userId, headerOrg, bodyOrg) ==
  LET organizationId == IF headerOrg # Nil THEN headerOrg ELSE bodyOrg
  IN guarded(userId, headerOrg,
             IF organizationId = Nil
               THEN organizationIdRequired("createProject", userId)
               ELSE CreateProject(organizationId, userId, 4))

\* POST /projects/:id/archive
PostProjectsArchive(userId, headerOrg, id) ==
  guarded(userId, headerOrg, ArchiveProject(id, userId, 3))

\* POST /tasks
PostTasks(userId, headerOrg, bodyOrg, projectId) ==
  LET organizationId == IF headerOrg # Nil THEN headerOrg ELSE bodyOrg
  IN guarded(userId, headerOrg,
             IF organizationId = Nil
               THEN organizationIdRequired("createTask", userId)
               ELSE CreateTask(organizationId, projectId, userId, 5))

\* PATCH /tasks/:id
PatchTasks(userId, headerOrg, id, status) ==
  guarded(userId, headerOrg, UpdateTask(id, status, Nil, userId, 5))

NextRoutes ==
  \/ \E t \in MemberTopics : \E m \in Deliverable(t) :
       /\ ~rejected(t, m) /\ m.eventId = 1 /\ m.role \in {Nil, "admin"}
       /\ DeliverUntracked(t, m, 1)
  \/ \E u \in Callers, h \in Orgs \cup {Nil}, b \in Orgs \cup {Nil} :
       nextEventId < MaxEvents /\ PostProjects(u, h, b)
  \/ \E u \in Callers, h \in Orgs \cup {Nil} : PostProjectsArchive(u, h, 1)
  \/ \E u \in Callers, h \in Orgs \cup {Nil}, b \in Orgs \cup {Nil} :
       nextEventId < MaxEvents /\ PostTasks(u, h, b, 1)
  \/ \E u \in Callers, h \in Orgs \cup {Nil}, s \in TaskStatuses :
       PatchTasks(u, h, 1, s)

SpecRoutes == Init /\ [][NextRoutes]_vars

\* C28: a request changes a project or a task of an organization only if the
\* membership cache held an entry for that organization and the calling user
\* when the request came in.
C28_MembershipGuardsMutations ==
  [][\A row \in (projects' \ projects) \cup (tasks' \ tasks) :
       verifyMembership(membership_cache, row.organization_id,
                        response'.userId)]_vars

\* C29: the limit check covers every limit value: while the cached entitlement
\* entry of an organization has maxProjects = N and the organization has at
\* least N active projects, no request adds a project to it, for every
\* N >= 0; likewise for maxTasks and its tasks.
C29_EveryLimitEnforced ==
  [][\A o \in Orgs :
       LET e == getEntitlements(entitlements_cache, o)
       IN /\ (e.found /\ countProjectsByOrganization(projects, o) >= e.maxProjects)
               => countProjectsByOrganization(projects', o)
                    <= countProjectsByOrganization(projects, o)
          /\ (e.found /\ countTasksByOrganization(tasks, o) >= e.maxTasks)
               => countTasksByOrganization(tasks', o)
                    <= countTasksByOrganization(tasks, o)]_vars

\* ------------------------------------- concurrent subscriptions (SpecSubscribe)
\* createSubscription up to and including its check for an active
\* subscription of the organization (each repository call is awaited on the
\* pool, outside any transaction); a request that passes is in flight until
\* its insert.
CreateSubscriptionCheck(organizationId, planId) ==
  LET request == [op |-> "createSubscription", organizationId |-> organizationId,
                  userId |-> Nil, planId |-> planId]
  IN /\ request \notin inflight
     /\ IF subscriptionFindByOrganizationId(subscriptions, organizationId) = {}
          THEN inflight' = inflight \cup {request} /\ UNCHANGED response
          ELSE /\ response' = [NoResponse EXCEPT !.op = "createSubscription",
                                 !.status = "error",
                                 !.organizationId = organizationId]
               /\ UNCHANGED inflight
     /\ UNCHANGED <<orgVars, busVars, storeVars, now, applied, lastDelivered,
                    auditVars, notifVars, loopVars,
                    invitations>>

\* The rest of createSubscription: create, entitlement upsert and the two
\* publishes.
CreateSubscriptionInsert(request) ==
  LET id == Cardinality(subscriptions) + 1
  IN /\ request \in inflight
     /\ request.op = "createSubscription"
     /\ nextEventId <= MaxEvents
     /\ inflight' = inflight \ {request}
     /\ subscriptions' = subscriptions \cup
          {[id |-> id, organization_id |-> request.organizationId,
            plan_id |-> request.planId, status |-> "active",
            cancel_at_period_end |-> FALSE]}
     /\ billing_entitlements' =
          entitlementUpsert(billing_entitlements, request.organizationId,
                            request.planId)
     /\ log' = publish(
                 publish(log, "billing.subscription.activated",
                   createEvent(nextEventId, "SubscriptionActivated",
                               request.organizationId, Nil, Nil, request.planId)
                     @@ [subscriptionId |-> id]),
                 "billing.entitlements.updated",
                 createEvent(nextEventId + 1, "EntitlementsUpdated",
                             request.organizationId, Nil, Nil, request.planId))
     /\ nextEventId' = nextEventId + 2
     /\ response' = [NoResponse EXCEPT !.op = "createSubscription",
                       !.status = "created",
                       !.organizationId = request.organizationId]
     /\ UNCHANGED <<organizations, memberships, position, committed, storeVars,
                    now, applied, lastDelivered, auditVars, notifVars, loopVars,
                    invitations>>

NextSubscribe ==
  \/ \E o \in Orgs, p \in Plans : CreateSubscriptionCheck(o, p)
  \/ \E request \in inflight : CreateSubscriptionInsert(request)
  \/ \E id \in 1 .. MaxSubscriptions + 1, c \in BOOLEAN :
       cancelSubscription(id, c, 4)

SpecSubscribe == Init /\ [][NextSubscribe]_vars

\* C30: every organization has at most one subscription with status
\* 'active', also when createSubscription requests for it run concurrently.
C30_OneActiveSubscription ==
  \A o \in Orgs :
    Cardinality(subscriptionFindByOrganizationId(subscriptions, o)) <= 1

\* ------------------------------------------- the subscription life (SpecBilling)
\* Subscriptions are created (the broker may be down for the publishes after
\* the rows are written), change plan and are cancelled.
NextBilling ==
  \/ \E o \in Orgs, p \in Plans, k \in 4 .. 6 : createSubscription(o, p, k)
  \/ \E id \in 1 .. MaxSubscriptions, p \in Plans : changePlan(id, p, 7)
  \/ \E id \in 1 .. MaxSubscriptions, c \in BOOLEAN :
       cancelSubscription(id, c, 4)

SpecBilling == Init /\ [][NextBilling]_vars

\* C31: entitlements follow the subscription: the billing entitlements table
\* holds a row of an organization only while the organization has a
\* subscription with status 'active'.
C31_EntitlementsFollowSubscription ==
  \A e \in billing_entitlements :
    subscriptionFindByOrganizationId(subscriptions, e.organization_id) # {}

\* ------------------------------------------------- invitations (SpecInvite)
Tokens == {"K1", "K2"}

\* An invitation is valid for seven days.
InvitationDays == 7

\* SELECT * FROM invitations WHERE token = $1 AND expires_at > CURRENT_TIMESTAMP
\* AND accepted_at IS NULL AND rejected_at IS NULL
findByToken(rows, token, at) ==
  {i \in rows : /\ i.token = token /\ i.expires_at > at
                /\ ~i.accepted /\ ~i.rejected}

\* UPDATE invitations SET accepted_at = CURRENT_TIMESTAMP WHERE id = $1
markAccepted(rows, token) ==
  {IF i.token = token THEN [i EXCEPT !.accepted = TRUE] ELSE i : i \in rows}

\* UPDATE invitations SET rejected_at = CURRENT_TIMESTAMP WHERE id = $1
markRejected(rows, token) ==
  {IF i.token = token THEN [i EXCEPT !.rejected = TRUE] ELSE i : i \in rows}

\* sendInvitation: a fresh random token, the row, the InvitationSent event.
sendInvitation(organizationId, role, token) ==
  /\ nextEventId < MaxEvents
  /\ ~\E i \in invitations : i.token = token
  /\ invitations' = invitations \cup
       {[token |-> token, organization_id |-> organizationId, role |-> role,
         expires_at |-> now + InvitationDays,
         accepted |-> FALSE, rejected |-> FALSE]}
  /\ log' = publish(log, "organization.invitation.sent",
                    createEvent(nextEventId, "InvitationSent", organizationId,
                                Nil, role, NoLimits))
  /\ nextEventId' = nextEventId + 1
  /\ UNCHANGED <<orgVars, position, committed, storeVars, now, historyVars,
                 auditVars, notifVars, loopVars, inflight>>

\* acceptInvitation up to its findByToken: without a row it throws 'Invalid
\* or expired invitation'; with one the request goes on to its writes.
AcceptInvitationFind(token, userId) ==
  LET found == findByToken(invitations, token, now)
      invitation == CHOOSE i \in found : TRUE
      request == [op |-> "acceptInvitation", token |-> token,
                  organizationId |-> invitation.organization_id,
                  userId |-> userId, role |-> invitation.role]
  IN /\ IF found = {}
          THEN /\ response' = [NoResponse EXCEPT !.op = "acceptInvitation",
                                 !.status = "invalid-or-expired",
                                 !.userId = userId]
               /\ UNCHANGED inflight
          ELSE /\ request \notin inflight
               /\ inflight' = inflight \cup {request}
               /\ UNCHANGED response
     /\ UNCHANGED <<orgVars, busVars, storeVars, now, applied, lastDelivered,
                    auditVars, notifVars, loopVars, invitations>>

\* The rest of acceptInvitation: markAccepted, membershipRepository.create
\* (UNIQUE (organization_id, user_id) makes the insert of a second row for
\* the pair throw) and the publish of MemberAdded.
AcceptInvitationFinish(request) ==
  LET taken == findByOrganizationAndUser(memberships, request.organizationId,
                                         request.userId) # {}
  IN /\ request \in inflight
     /\ request.op = "acceptInvitation"
     /\ nextEventId <= MaxEvents
     /\ inflight' = inflight \ {request}
     /\ invitations' = markAccepted(invitations, request.token)
     /\ IF taken
          THEN /\ response' = [NoResponse EXCEPT !.op = "acceptInvitation",
                                 !.status = "error",
                                 !.organizationId = request.organizationId,
                                 !.userId = request.userId]
               /\ UNCHANGED <<memberships, log, nextEventId>>
          ELSE /\ memberships' = memberships \cup
                    {[organization_id |-> request.organizationId,
                      user_id |-> request.userId, role |-> request.role]}
               /\ log' = publish(log, "organization.member.added",
                                 createEvent(nextEventId, "MemberAdded",
                                             request.organizationId,
                                             request.userId, request.role,
                                             NoLimits))
               /\ nextEventId' = nextEventId + 1
               /\ response' = [NoResponse EXCEPT !.op = "acceptInvitation",
                                 !.status = "accepted",
                                 !.organizationId = request.organizationId,
                                 !.userId = request.userId]
     /\ UNCHANGED <<organizations, billingVars, position, committed, storeVars,
                    now, applied, lastDelivered, auditVars, notifVars, loopVars>>

\* rejectInvitation: findByToken, then markRejected.
rejectInvitation(token) ==
  LET found == findByToken(invitations, token, now)
  IN /\ invitations' = IF found = {} THEN invitations
                       ELSE markRejected(invitations, token)
     /\ response' = [NoResponse EXCEPT !.op = "rejectInvitation",
                       !.status = IF found = {} THEN "invalid-or-expired"
                                  ELSE "rejected"]
     /\ UNCHANGED <<orgVars, busVars, storeVars, now, applied, lastDelivered,
                    auditVars, notifVars, loopVars, inflight>>

NextInvite ==
  \/ \E o \in Orgs, r \in Roles, k \in Tokens : sendInvitation(o, r, k)
  \/ \E k \in Tokens, u \in Callers : AcceptInvitationFind(k, u)
  \/ \E request \in inflight : AcceptInvitationFinish(request)
  \/ \E k \in Tokens : rejectInvitation(k)

SpecInvite == Init /\ [][NextInvite]_vars

\* C32: an invitation is consumed at most once: the invitations accepted so
\* far have yielded at most one membership and one MemberAdded event each.
C32_InvitationConsumedOnce ==
  /\ Cardinality(memberships) <= Cardinality({i \in invitations : i.accepted})
  /\ Len(log["organization.member.added"])
       <= Cardinality({i \in invitations : i.accepted})

\* ---------------------------------------------- the tasks table (SpecTasks)
\* CHECK (status IN ('todo', 'in_progress', 'done', 'cancelled'))
AllTaskStatuses == {"todo", "in_progress", "done", "cancelled"}

\* TaskRepository.update on its own; the UPDATE of an unknown id returns no
\* row and mapping it throws, with nothing written.
TaskRepositoryUpdate(id, status, assignedTo) ==
  /\ tasks' = taskUpdate(tasks, id, status, assignedTo, now)
  /\ UNCHANGED <<orgVars, busVars, membership_cache, entitlements_cache,
                 projects, now, historyVars, auditVars, notifVars, loopVars,
                 inflight, invitations>>

NextTasks ==
  \/ \E u \in Users : nextEventId <= MaxEvents /\ CreateProject("T1", u, 4)
  \/ \E u \in Users : nextEventId <= MaxEvents /\ CreateTask("T1", 1, u, 5)
  \/ \E id \in 1 .. MaxTasks, s \in AllTaskStatuses \cup {Nil},
        a \in Users \cup {Nil} : TaskRepositoryUpdate(id, s, a)
  \/ Tick

SpecTasks == Init /\ [][NextTasks]_vars

\* C33: a task's completed_at is set if and only if its status is 'done',
\* and an update that names no status leaves status and completed_at of
\* every task as they are.
C33_CompletedAtMatchesStatus ==
  /\ \A t \in tasks : (t.completed_at # <<>>) <=> (t.status = "done")
  /\ \A id \in 1 .. MaxTasks, a \in Users \cup {Nil} :
       {<<t.id, t.status, t.completed_at>> :
          t \in taskUpdate(tasks, id, Nil, a, now)}
         = {<<t.id, t.status, t.completed_at>> : t \in tasks}

C33_Witness ==
  /\ \E t \in tasks : t.status = "done" /\ t.completed_at = <<1>>
  /\ \E t \in tasks : /\ t.status = "in_progress" /\ t.completed_at = <<>>
                      /\ t.assigned_to # Nil

\* ---------------------------------------- concurrent updateTask (SpecUpdate)
\* updateTask up to its findById: an unknown id throws 'Task not found'; a
\* request that found its task carries the row it read.
UpdateTaskFind(taskId, status, assignedTo, updatedBy) ==
  LET found == taskFindById(tasks, taskId)
      task == CHOOSE t \in found : TRUE
      request == [op |-> "updateTask", taskId |-> taskId, status |-> status,
                  assignedTo |-> assignedTo, userId |-> updatedBy,
                  organizationId |-> task.organization_id,
                  oldStatus |-> task.status, oldAssignedTo |-> task.assigned_to]
  IN /\ nextEventId <= MaxEvents
     /\ Cardinality(inflight) < MaxInflight
     /\ IF found = {}
          THEN /\ response' = [NoResponse EXCEPT !.op = "updateTask",
                                 !.status = "not-found", !.userId = updatedBy]
               /\ UNCHANGED inflight
          ELSE /\ request \notin inflight
               /\ inflight' = inflight \cup {request}
               /\ UNCHANGED response
     /\ UNCHANGED <<orgVars, busVars, storeVars, now, applied, lastDelivered,
                    auditVars, notifVars, loopVars, invitations>>

\* The rest of updateTask: taskRepository.update, publish TaskUpdated, then
\* TaskAssigned and TaskStatusChanged, each decided by comparing the input
\* with the row read at the start.
UpdateTaskWrite(request) ==
  LET assigned == request.assignedTo # Nil
                    /\ request.assignedTo # request.oldAssignedTo
      changed == request.status # Nil /\ request.status # request.oldStatus
      e1 == createEvent(nextEventId, "TaskUpdated", request.organizationId,
                        request.userId, Nil, NoLimits)
              @@ [taskId |-> request.taskId]
      e2 == createEvent(nextEventId + 1, "TaskAssigned", request.organizationId,
                        request.userId, Nil, NoLimits)
              @@ [taskId |-> request.taskId, assignedTo |-> request.assignedTo]
      e3 == createEvent(nextEventId + (IF assigned THEN 2 ELSE 1),
                        "TaskStatusChanged", request.organizationId,
                        request.userId, Nil, NoLimits)
              @@ [taskId |-> request.taskId, oldStatus |-> request.oldStatus,
                  newStatus |-> request.status]
      l1 == publish(log, "workflow.task.updated", e1)
      l2 == IF assigned THEN publish(l1, "workflow.task.assigned", e2) ELSE l1
  IN /\ request \in inflight
     /\ request.op = "updateTask"
     /\ inflight' = inflight \ {request}
     /\ tasks' = taskUpdate(tasks, request.taskId, request.status,
                            request.assignedTo, now)
     /\ log' = IF changed
                 THEN publish(l2, "workflow.task.status-changed", e3) ELSE l2
     /\ nextEventId' = nextEventId + 1 + (IF assigned THEN 1 ELSE 0)
                         + (IF changed THEN 1 ELSE 0)
     /\ response' = [NoResponse EXCEPT !.op = "updateTask", !.status = "updated",
                       !.userId = request.userId]
     /\ UNCHANGED <<orgVars, position, committed, membership_cache,
                    entitlements_cache, projects, now, applied, lastDelivered,
                    auditVars, notifVars, loopVars, invitations>>

NextUpdate ==
  \/ \E u \in Users : projects = {} /\ CreateProject("T1", u, 4)
  \/ \E u \in Users : tasks = {} /\ CreateTask("T1", 1, u, 5)
  \/ \E s \in {"in_progress", "done", Nil}, a \in Users \cup {Nil},
        u \in Callers : UpdateTaskFind(1, s, a, u)
  \/ \E request \in inflight : UpdateTaskWrite(request)

SpecUpdate == Init /\ [][NextUpdate]_vars

\* The stored status of a task.
storedStatus(rows, id) == {t.status : t \in taskFindById(rows, id)}

\* C34: TaskStatusChanged is published exactly when the stored status of a
\* task changes, with oldStatus the status stored just before the update and
\* newStatus the status stored after it.
C34_StatusEventsMatchStore ==
  [][LET before == log["workflow.task.status-changed"]
         after == log'["workflow.task.status-changed"]
     IN /\ Len(after) > Len(before)
             => LET e == after[Len(after)]
                IN /\ storedStatus(tasks, e.taskId) = {e.oldStatus}
                   /\ storedStatus(tasks', e.taskId) = {e.newStatus}
                   /\ e.oldStatus # e.newStatus
        /\ (\E id \in 1 .. MaxTasks :
              /\ storedStatus(tasks, id) # {}
              /\ storedStatus(tasks', id) # storedStatus(tasks, id))
             => Len(after) = Len(before) + 1]_vars

\* ------------------------------------------- the in-progress counter (SpecMetrics)
TaskStatusChangedEventSchema(event) ==
  /\ event.eventType = "TaskStatusChanged" /\ event.eventVersion = "v1"
  /\ event.organizationId # Nil /\ event.userId # Nil

\* upsertTaskMetrics as processTaskStatusChanged calls it, without projectId:
\* project_id is NULL, which never conflicts under UNIQUE (organization_id,
\* project_id, date), so each call inserts a row of its own.
upsertTaskMetricsOfOrganization(rows, organizationId, completed, inProgress) ==
  rows \cup {[id |-> Cardinality(rows) + 1, organization_id |-> organizationId,
              project_id |-> Nil, tasks_created |-> 0,
              tasks_completed |-> completed,
              tasks_in_progress |-> inProgress]}

\* analytics-service, topic workflow.task.status-changed
processTaskStatusChanged(rows, event) ==
  IF ~TaskStatusChangedEventSchema(event) THEN rows
  ELSE IF event.newStatus = "done" /\ event.oldStatus # "done"
    THEN upsertTaskMetricsOfOrganization(rows, event.organizationId, 1, 0)
  ELSE IF event.newStatus = "in_progress" /\ event.oldStatus = "todo"
    THEN upsertTaskMetricsOfOrganization(rows, event.organizationId, 0, 1)
  ELSE IF event.oldStatus = "in_progress" /\ event.newStatus # "in_progress"
    THEN upsertTaskMetricsOfOrganization(rows, event.organizationId, 0, 0 - 1)
  ELSE rows

\* The status of a task changes in workflow-service and the event of the
\* change is put on the partition analytics-service reads.
ChangeTaskStatus(taskId, newStatus, changedBy) ==
  LET found == taskFindById(tasks, taskId)
      task == CHOOSE t \in found : TRUE
  IN /\ found # {}
     /\ task.status # newStatus
     /\ Len(inbox["analytics"]) < MaxInbox
     /\ tasks' = taskUpdate(tasks, taskId, newStatus, Nil, now)
     /\ inbox' = [inbox EXCEPT !["analytics"] =
                    Append(@, createEvent(Len(@) + 1, "TaskStatusChanged",
                                          task.organization_id, changedBy, Nil,
                                          NoLimits)
                                @@ [taskId |-> taskId, oldStatus |-> task.status,
                                    newStatus |-> newStatus])]
     /\ UNCHANGED <<orgVars, busVars, membership_cache, entitlements_cache,
                    projects, now, historyVars, auditVars, notifVars, offset,
                    task_metrics, inflight, invitations>>

ConsumeTaskStatusChanged ==
  /\ offset["analytics"] < Len(inbox["analytics"])
  /\ task_metrics' = processTaskStatusChanged(
                       task_metrics, inbox["analytics"][offset["analytics"] + 1])
  /\ Advance("analytics", "resolved")
  /\ UNCHANGED <<orgVars, busVars, storeVars, now, historyVars, auditVars,
                 notifVars, inbox, inflight, invitations>>

NextMetrics ==
  \/ \E u \in Users : projects = {} /\ CreateProject("T1", u, 4)
  \/ \E u \in Users : nextEventId <= MaxEvents /\ CreateTask("T1", 1, u, 5)
  \/ \E id \in 1 .. MaxTasks, s \in AllTaskStatuses, u \in Users :
       ChangeTaskStatus(id, s, u)
  \/ ConsumeTaskStatusChanged

SpecMetrics == Init /\ [][NextMetrics]_vars

RECURSIVE tasksInProgress(_)
tasksInProgress(rows) ==
  IF rows = {} THEN 0
  ELSE LET r == CHOOSE x \in rows : TRUE
       IN r.tasks_in_progress + tasksInProgress(rows \ {r})

\* C35: once analytics-service has processed every TaskStatusChanged event,
\* the tasks_in_progress of an organization's task_metrics rows add up to the
\* number of its tasks whose status is 'in_progress', and the sum is never
\* negative.
C35_InProgressCounter ==
  \A o \in Orgs :
    LET total == tasksInProgress({r \in task_metrics : r.organization_id = o})
    IN /\ total >= 0
       /\ offset["analytics"] = Len(inbox["analytics"])
            => total = Cardinality({t \in tasks : /\ t.organization_id = o
                                                  /\ t.status = "in_progress"})

\* ------------------------------------------- membership changes (SpecMembers)
\* addMember and removeMember with the store or the broker failing at any of
\* their calls.
NextMembers ==
  \/ \E o \in Orgs, u \in Callers, r \in Roles, k \in 0 .. 3 :
       addMember(o, u, r, k)
  \/ \E o \in Orgs, u \in Callers, k \in 0 .. 3 : removeMember(o, u, k)

SpecMembers == Init /\ [][NextMembers]_vars

\* C36: for addMember and removeMember the membership change is persisted if
\* and only if its MemberAdded or MemberRemoved event is published: no call
\* leaves a changed memberships table without the event, or an event without
\* the change.
C36_StoreAndStreamAgree ==
  [][(memberships' # memberships)
       <=> (Len(log'["organization.member.added"])
              + Len(log'["organization.member.removed"])
            = Len(log["organization.member.added"])
                + Len(log["organization.member.removed"]) + 1)]_vars

====
